---- MODULE Spec2Model ----
(***************************************************************************)
(* A model of moss-rs: the boulder build runner (Builder::build in         *)
(* crates/boulder/src/builder.rs) and the moss download cache (fetch and   *)
(* Download::unpack in crates/moss/src/client/cache.rs).                   *)
(*                                                                         *)
(* SpecBuild runs Builder::build over a plan (targets x jobs x steps x     *)
(* commands) fixed at construction.  The exit statuses of the children it  *)
(* waits for are inputs.  The runner's own system calls (setpgid,          *)
(* tcsetpgrp, mkdir, write, spawn, wait) are taken to succeed.             *)
(*                                                                         *)
(* SpecCache runs fetch and Download::unpack, one call at a time, against  *)
(* a file system that starts empty and a remote that serves one package.   *)
(* The requests (package::Meta) are inputs; transport and write errors     *)
(* while the body streams are outcomes of the fetch.                       *)
(*                                                                         *)
(* SpecUnpack runs one call of Download::unpack on a Download that fetch   *)
(* returned (from the cache or not), on a disk where the package's assets  *)
(* are absent or were left by an earlier unpack.                           *)
(*                                                                         *)
(* SpecRun runs Builder::build over one target whose scripts fill or remove*)
(* the job's work directory, on a disk where the work and pgo directories  *)
(* are missing or left by an earlier build; a shell whose directory is     *)
(* missing fails to spawn.  SpecLogged runs logged for one child after     *)
(* another, statement by statement, with the child writing lines (valid    *)
(* UTF-8 or not) to its pipes, the two log threads reading them and SIGINTs*)
(* arriving at any moment.  SpecRace runs two calls of Download::unpack at *)
(* the same time on one installation, byte by byte.                        *)
(*                                                                         *)
(* The remaining specifications run one function on its own over its       *)
(* inputs: SpecHeader the stone header's encode and decode                 *)
(* (stone/src/header/mod.rs), SpecStore download_path and asset_path,      *)
(* SpecPlan the planning of jobs in Builder::new and SpecLine              *)
(* breakpoint_line.  Hashes are hex digests, one byte per character, and   *)
(* the creation of directories is taken to succeed.                        *)
(***************************************************************************)
EXTENDS Integers, Sequences, FiniteSets, TLC

\* ------------------------------------------------------------------ bounds

MaxTargets == 2
MaxStages == 2
MaxJobSize == 2
MaxCode == 2
MaxChunks == 2
MaxContent == 1
MaxIndex == 2
MaxPayloads == 1
MaxLines == 3
MaxLineNum == 1
MaxRunSize == 3
MaxChildren == 2
MaxWrites == 3
MaxSigints == 1
MaxRaceBytes == 2

\* ------------------------------------------------------- builder.rs: data

\* job::Step, in the order of the enum (the key order of Job::steps).
StepOrder == <<"Prepare", "Setup", "Build", "Install", "Check", "Workload">>

Steps == {StepOrder[k] : k \in 1..Len(StepOrder)}

\* script::Command: Content(text) or Break(Breakpoint { exit, .. }).
\* effect is what the command's text does to the job's work directory; the
\* commands of SpecBuild leave it alone.
Commands ==
    {[kind |-> "Content", exit |-> FALSE, effect |-> "keep"]}
        \cup [kind : {"Break"}, exit : BOOLEAN, effect : {"keep"}]

\* What a script's text may do to the work directory: leave it alone, write
\* files into it (creating it when it is missing), or remove it.
Effects == {"keep", "fill", "remove"}

\* The commands of SpecRun: Content commands that touch the work directory.
RunCommands ==
    [kind : {"Content"}, exit : {FALSE}, effect : Effects]
        \cup [kind : {"Break"}, exit : BOOLEAN, effect : {"keep"}]

\* Signal numbers a child may be killed or stopped by: SIGINT, SIGTERM,
\* SIGSYS (the last number nix names) and 32 (the first it does not).
SignalSample == {2, 15, 31, 32}

\* std::process::ExitStatus, as the wait status decodes: exited with a code,
\* killed by a signal, stopped by a signal, or continued.
Statuses ==
    [kind : {"exited"}, n : 0..MaxCode]
        \cup [kind : {"signaled", "stopped"}, n : SignalSample]
        \cup {[kind |-> "continued", n |-> 0]}

\* The statuses drawn for a breakpoint's bash.
ShellStatuses ==
    {[kind |-> "exited", n |-> 0], [kind |-> "exited", n |-> 1],
     [kind |-> "signaled", n |-> 15]}

NoStatus == [kind |-> "none", n |-> 0]

\* ExitStatus::success
Success(st) == st.kind = "exited" /\ st.n = 0

\* ExitStatus::code
Code(st) == IF st.kind = "exited" THEN <<st.n>> ELSE <<>>

\* ExitStatus::signal
TermSignal(st) == IF st.kind = "signaled" THEN <<st.n>> ELSE <<>>

\* ExitStatus::stopped_signal
StoppedSignal(st) == IF st.kind = "stopped" THEN <<st.n>> ELSE <<>>

\* nix Signal::try_from: the numbers 1..31 name a signal.
SignalTryFrom(i) == IF i \in 1..31 THEN <<i>> ELSE <<>>

\* Option::or_else
OrElse(a, b) == IF a # <<>> THEN a ELSE b

\* Option::and_then(|i| Signal::try_from(i).ok())
AndThenSignal(a) == IF a # <<>> THEN SignalTryFrom(a[1]) ELSE <<>>

ExecErrorNoTryFrom(st) ==
    IF Code(st) # <<>>
    THEN [kind |-> "Code", n |-> Code(st)[1]]
    ELSE LET signal == OrElse(TermSignal(st), StoppedSignal(st))
         IN  IF signal # <<>>
             THEN [kind |-> "Signal", n |-> signal[1]]
             ELSE [kind |-> "UnknownSignal", n |-> 0]

\* The error a failed Content child is turned into.
ExecError(st) ==
    IF Code(st) # <<>>
    THEN [kind |-> "Code", n |-> Code(st)[1]]
    ELSE LET signal == AndThenSignal(OrElse(TermSignal(st), StoppedSignal(st)))
         IN  IF signal # <<>>
             THEN [kind |-> "Signal", n |-> signal[1]]
             ELSE [kind |-> "UnknownSignal", n |-> 0]

NoResult == [kind |-> "none", n |-> 0]
OkResult == [kind |-> "Ok", n |-> 0]

\* -------------------------------------------------------------- variables

VARIABLES
    targets,      \* Builder::targets: per target its jobs
    pc,           \* where build is: init, target, job, step, cmd, shell, child, done
    ti, ji, si, ci,  \* the loop indices: target, job, step, command
    live,         \* the children spawned and not yet waited for
    log,          \* the commands started, in the order they started
    recreated,    \* the jobs whose work directory was recreated, in order
    fg,           \* the process group in the terminal's foreground
    childStatus,  \* the exit status of the last Content child waited for
    shellStatus,  \* the exit status of the last breakpoint shell waited for
    result,       \* what build returned
    disk,         \* the work and pgo directories: path -> absent, empty, stale, used
    current_dir,  \* the directory build chose for the shells of the current step
    cwd,          \* the directory the last shell was given, and whether work_dir existed
    stone,        \* the package the remote serves, as its stone file parses
    fs,           \* the files on disk: path -> data
    download,     \* the Download a fetch returned, not yet unpacked (or none)
    fpc,          \* where fetch is: idle, streaming
    freq,         \* the package::Meta of the last call of fetch
    netUsed,      \* whether the last call of fetch issued a request
    progress,     \* the Progress values the last call of fetch reported
    fetchResult,  \* what the last call of fetch returned
    upc,          \* where unpack is: idle, extract, split, copy
    uself,        \* the Download being unpacked
    uk,           \* the index entry unpack is at
    unpackResult, \* what the last call of unpack returned
    reader,       \* the byte source Header::decode reads (or none)
    header,       \* the Header value Header::encode is given (or none)
    agnostic,     \* the AgnosticHeader Header::encode returned (or none)
    decoded,      \* what Header::decode returned (or none)
    dirs,         \* the directories under the cache and assets roots
    call,         \* the last call of download_path or asset_path, with its result
    prev,         \* the call before it
    recipe,       \* the Recipe Builder::new has loaded
    built,        \* what Builder::new returned (or none)
    asked,        \* the arguments of breakpoint_line: recipe, breakpoint, step
    line,         \* what breakpoint_line returned (or pending)
    lpc,          \* where logged is: idle, spawned, waiting, joining
    largs,        \* the step and is_pgo logged was called with
    lchild,       \* the pid of the child logged spawned last (0: none yet)
    lalive,       \* whether that child is still running
    lstatus,      \* the status that child exited with (or none)
    forward,      \* the pid SIGINT is forwarded to (0: no forwarding installed)
    ints,         \* the SIGINTs the build process received: where each went
    written,      \* the lines the child wrote, per stream
    rd,           \* how many lines each reader thread has taken off its pipe
    rst,          \* the reader threads: none, reading, done
    emitted,      \* the lines printed for the child, in the order printed
    lresult,      \* what logged returned last (or none)
    un            \* the unpacks of SpecRace: per call its package and position

dirVars == <<disk, current_dir, cwd>>

buildVars ==
    <<targets, pc, ti, ji, si, ci, live, log, recreated, fg, childStatus,
      shellStatus, result, dirVars>>

cacheVars ==
    <<stone, fs, download, fpc, freq, netUsed, progress, fetchResult,
      upc, uself, uk, unpackResult>>

headerVars == <<reader, header, agnostic, decoded>>

\* The variables of the functions that are run on their own.
storeVars == <<dirs, call, prev>>

planVars == <<recipe, built>>

lineVars == <<asked, line>>

loggedVars ==
    <<lpc, largs, lchild, lalive, lstatus, forward, ints, written, rd, rst, emitted,
      lresult>>

raceVars == <<un>>

unitVars == <<headerVars, storeVars, planVars, lineVars, loggedVars, raceVars>>

vars == <<buildVars, cacheVars, unitVars>>

\* ------------------------------------------------------- builder.rs: plan

RECURSIVE Flatten(_)
Flatten(ss) == IF ss = <<>> THEN <<>> ELSE Head(ss) \o Flatten(Tail(ss))

\* Job::steps is an ordered map keyed by Step: iteration is in enum order,
\* over the steps the job declares.
JobSteps(job) ==
    Flatten([k \in 1..Len(StepOrder) |->
        IF StepOrder[k] \in DOMAIN job.steps THEN <<StepOrder[k]>> ELSE <<>>])

RECURSIVE SeqSum(_)
SeqSum(s) == IF s = <<>> THEN 0 ELSE Head(s) + SeqSum(Tail(s))

Scripts == UNION {[1..n -> Commands] : n \in 0..MaxJobSize}

\* The size of a job's step map: each declared step counts for its commands,
\* and for one when its script is empty.
JobSize(m) ==
    SeqSum([k \in 1..Len(StepOrder) |->
        IF StepOrder[k] \notin DOMAIN m THEN 0
        ELSE IF m[StepOrder[k]] = <<>> THEN 1
        ELSE Len(m[StepOrder[k]])])

\* The step maps of a job, up to size MaxJobSize.  Every job has the Prepare
\* step, whose script is assembled by boulder and holds no breakpoint.
StepMaps ==
    {m \in UNION {[d -> Scripts] : d \in {d \in SUBSET Steps : Cardinality(d) <= MaxJobSize}} :
        /\ JobSize(m) <= MaxJobSize
        /\ "Prepare" \in DOMAIN m
        /\ \A c \in 1..Len(m["Prepare"]) : m["Prepare"][c].kind = "Content"}

\* pgo::stages: None without PGO (one job, no stage), else the stage list.
StageLists == {<<0>>} \cup {[k \in 1..n |-> k] : n \in 1..MaxStages}

\* Builder::new: per build target one job per stage.
Plans ==
    {[t \in 1..n |-> [j \in 1..Len(stages) |-> [pgo_stage |-> stages[j], steps |-> m]]] :
        n \in 1..MaxTargets, stages \in StageLists, m \in StepMaps}

\* The step maps of SpecRun: Prepare and Setup, up to size MaxRunSize.
RunStepMaps ==
    {m \in UNION {[d -> UNION {[1..n -> RunCommands] : n \in 0..MaxRunSize}] :
                      d \in {{"Prepare"}, {"Prepare", "Setup"}}} :
        /\ JobSize(m) <= MaxRunSize
        /\ \A c \in 1..Len(m["Prepare"]) : m["Prepare"][c].kind = "Content"}

\* The plans of SpecRun: one target, without PGO or with two stages.
RunPlans ==
    {<<[j \in 1..Len(stages) |-> [pgo_stage |-> stages[j], steps |-> m]]>> :
        stages \in {<<0>>, <<1, 2>>}, m \in RunStepMaps}

IsPgoNever(job) == FALSE

\* let is_pgo = job.pgo_stage.is_some()
IsPgo(job) == job.pgo_stage # 0

\* job.work_dir and format!("{}-pgo", job.build_dir.display()), of job j of
\* target t: paths that no two jobs share.
WorkDir(t, j) == <<"work_dir", t, j>>
PgoDir(t, j) == <<"build_dir-pgo", t, j>>

JobDirs(plan) ==
    UNION {{WorkDir(t, j) : j \in 1..Len(plan[t])} \cup {PgoDir(t, j) : j \in 1..Len(plan[t])} :
              t \in 1..Len(plan)}

\* Path::exists
Exists(d, path) == d[path] # "absent"

\* util::sync::recreate_dir: remove the directory with all it holds, then
\* create it.
RecreateDir(d, path) == [d EXCEPT ![path] = "empty"]

\* util::sync::ensure_dir_exists: create the directory unless it exists.
EnsureDirExists(d, path) == [d EXCEPT ![path] = IF @ = "absent" THEN "empty" ELSE @]

\* What a finished script has done to its work directory.
Touch(d, path, effect) ==
    CASE effect = "fill" -> [d EXCEPT ![path] = "used"]
      [] effect = "remove" -> [d EXCEPT ![path] = "absent"]
      [] OTHER -> d

NoDir == [dir |-> "none", work_dir_exists |-> FALSE]

\* io::Error through Error::Io
IoError == [kind |-> "Io", n |-> 0]

CurJob == targets[ti][ji]
CurStep == JobSteps(CurJob)[si]
CurScript == CurJob.steps[CurStep]
CurCommand == CurScript[ci]
CurPos == [t |-> ti, j |-> ji, step |-> CurStep, c |-> ci, cmd |-> CurCommand]

\* ------------------------------------------------------ builder.rs: build

BuildInit ==
    /\ targets \in Plans
    /\ pc = "init"
    /\ ti = 0 /\ ji = 0 /\ si = 0 /\ ci = 0
    /\ live = {}
    /\ log = <<>>
    /\ recreated = <<>>
    /\ fg = "host"
    /\ childStatus = NoStatus
    /\ shellStatus = NoStatus
    /\ result = NoResult
    /\ disk = [d \in JobDirs(targets) |-> "absent"]
    /\ current_dir = "none"
    /\ cwd = NoDir

\* SpecRun: the plan's scripts touch the work directory, and the directories
\* are missing or hold what an earlier build left.
RunInit ==
    /\ targets \in RunPlans
    /\ pc = "init"
    /\ ti = 0 /\ ji = 0 /\ si = 0 /\ ci = 0
    /\ live = {}
    /\ log = <<>>
    /\ recreated = <<>>
    /\ fg = "host"
    /\ childStatus = NoStatus
    /\ shellStatus = NoStatus
    /\ result = NoResult
    /\ \E w \in {"absent", "stale"}, g \in {"absent", "stale"} :
        disk = [d \in JobDirs(targets) |-> IF d[1] = "work_dir" THEN w ELSE g]
    /\ current_dir = "none"
    /\ cwd = NoDir

PgidOfParent == "host"

\* let pgid = getpgrp(), after setpgid(0, 0): the runner's own group.
Pgid == "runner"

\* container::set_term_fg(pgid): the group the terminal's foreground is
\* handed to.
SetTermFg(pgid) == pgid

\* setpgid(0, 0); set_term_fg(getpgrp())
Begin ==
    /\ pc = "init"
    /\ fg' = SetTermFg(Pgid)
    /\ ti' = 1
    /\ pc' = "target"
    /\ UNCHANGED <<cacheVars, unitVars>>
    /\ UNCHANGED <<targets, ji, si, ci, live, log, recreated, childStatus, shellStatus, result, dirVars>>

\* for target in self.targets; Ok(()) once the targets are exhausted
NextTarget ==
    /\ pc = "target"
    /\ IF ti > Len(targets)
       THEN /\ pc' = "done"
            /\ result' = OkResult
            /\ ji' = ji
       ELSE /\ pc' = "job"
            /\ ji' = 1
            /\ result' = result
    /\ UNCHANGED <<cacheVars, unitVars>>
    /\ UNCHANGED <<targets, ti, si, ci, live, log, recreated, fg, childStatus, shellStatus, dirVars>>

\* for job in target.jobs: recreate_dir(work_dir), ensure the pgo dir
NextJob ==
    /\ pc = "job"
    /\ IF ji > Len(targets[ti])
       THEN /\ pc' = "target"
            /\ ti' = ti + 1
            /\ UNCHANGED <<si, recreated, disk>>
       ELSE /\ pc' = "step"
            /\ si' = 1
            /\ recreated' = Append(recreated, <<ti, ji>>)
            /\ disk' = LET d == RecreateDir(disk, WorkDir(ti, ji))
                       IN  IF IsPgo(CurJob)
                           THEN EnsureDirExists(d, PgoDir(ti, ji))
                           ELSE d
            /\ ti' = ti
    /\ UNCHANGED <<cacheVars, unitVars>>
    /\ UNCHANGED <<targets, ji, ci, live, log, fg, childStatus, shellStatus, result,
                   current_dir, cwd>>

\* let current_dir = if work_dir.exists() { &work_dir } else { &build_dir }
CurrentDir(d, work_dir) == IF Exists(d, work_dir) THEN "work_dir" ELSE "build_dir"

\* for (step, script) in job.steps: the shells' directory is chosen here,
\* once for the step's commands.
NextStep ==
    /\ pc = "step"
    /\ IF si > Len(JobSteps(CurJob))
       THEN /\ pc' = "job"
            /\ ji' = ji + 1
            /\ UNCHANGED <<ci, current_dir>>
       ELSE /\ pc' = "cmd"
            /\ ci' = 1
            /\ current_dir' = CurrentDir(disk, WorkDir(ti, ji))
            /\ ji' = ji
    /\ UNCHANGED <<cacheVars, unitVars>>
    /\ UNCHANGED <<targets, ti, si, live, log, recreated, fg, childStatus, shellStatus, result,
                   disk, cwd>>

\* The child of a command: bash --login for a Break, /bin/sh for Content.
Spawned(command) == IF command.kind = "Break" THEN "shell" ELSE "child"

\* Command::current_dir(dir).spawn(): the child cannot enter a directory
\* that is not there, and spawn returns the error.
SpawnFails(dir, d, work_dir) == dir = "work_dir" /\ ~Exists(d, work_dir)

NextCommandSkipsLast ==
    /\ pc = "cmd"
    /\ IF ci >= Len(CurScript)
       THEN /\ pc' = "step"
            /\ si' = si + 1
            /\ UNCHANGED <<live, log, fg, result, cwd>>
       ELSE /\ cwd' = [dir |-> current_dir,
                       work_dir_exists |-> Exists(disk, WorkDir(ti, ji))]
            /\ IF SpawnFails(current_dir, disk, WorkDir(ti, ji))
               THEN /\ pc' = "done"
                    /\ result' = IoError
                    /\ UNCHANGED <<live, log, fg, si>>
               ELSE /\ pc' = Spawned(CurCommand)
                    /\ live' = live \cup {CurPos}
                    /\ log' = Append(log, CurPos)
                    /\ fg' = IF CurCommand.kind = "Break" THEN "shell" ELSE fg
                    /\ UNCHANGED <<si, result>>
    /\ UNCHANGED <<cacheVars, unitVars>>
    /\ UNCHANGED <<targets, ti, ji, ci, recreated, childStatus, shellStatus,
                   disk, current_dir>>

\* for command in &script.commands: spawn the command's child
NextCommand ==
    /\ pc = "cmd"
    /\ IF ci > Len(CurScript)
       THEN /\ pc' = "step"
            /\ si' = si + 1
            /\ UNCHANGED <<live, log, fg, result, cwd>>
       ELSE /\ cwd' = [dir |-> current_dir,
                       work_dir_exists |-> Exists(disk, WorkDir(ti, ji))]
            /\ IF SpawnFails(current_dir, disk, WorkDir(ti, ji))
               THEN /\ pc' = "done"
                    /\ result' = IoError
                    /\ UNCHANGED <<live, log, fg, si>>
               ELSE /\ pc' = Spawned(CurCommand)
                    /\ live' = live \cup {CurPos}
                    /\ log' = Append(log, CurPos)
                    /\ fg' = IF CurCommand.kind = "Break" THEN "shell" ELSE fg
                    /\ UNCHANGED <<si, result>>
    /\ UNCHANGED <<cacheVars, unitVars>>
    /\ UNCHANGED <<targets, ti, ji, ci, recreated, childStatus, shellStatus,
                   disk, current_dir>>

BreakReturnsAlways(breakpoint) == TRUE

BreakReturnsNever(breakpoint) == FALSE

\* if breakpoint.exit { return Ok(()) }
BreakReturns(breakpoint) == breakpoint.exit

ShellResultPropagated(st) == IF Success(st) THEN NoResult ELSE ExecError(st)

\* command.wait()?: the shell's status is dropped.
ShellResult(st) == NoResult

\* The breakpoint's bash exits: wait returns, the runner takes the terminal
\* back and either returns or goes on to the next command.
ShellExit ==
    /\ pc = "shell"
    /\ \E st \in ShellStatuses :
        /\ shellStatus' = st
        /\ live' = live \ {CurPos}
        /\ fg' = SetTermFg(Pgid)
        /\ IF ShellResult(st) # NoResult
           THEN /\ result' = ShellResult(st)
                /\ pc' = "done"
                /\ ci' = ci
           ELSE IF BreakReturns(CurCommand)
           THEN /\ result' = OkResult
                /\ pc' = "done"
                /\ ci' = ci
           ELSE /\ result' = result
                /\ pc' = "cmd"
                /\ ci' = ci + 1
    /\ UNCHANGED <<cacheVars, unitVars>>
    /\ UNCHANGED <<targets, ti, ji, si, log, recreated, childStatus, dirVars>>

ChildFailedCodeOnly(st) == st.kind = "exited" /\ st.n # 0

\* if !result.success()
ChildFailed(st) == ~Success(st)

\* The Content child exits: logged returns its status; a failure returns
\* the ExecError, a success goes on to the next command.
ChildExit ==
    /\ pc = "child"
    /\ \E st \in Statuses :
        /\ childStatus' = st
        /\ live' = live \ {CurPos}
        /\ disk' = Touch(disk, WorkDir(ti, ji), CurCommand.effect)
        /\ IF ChildFailed(st)
           THEN /\ result' = ExecError(st)
                /\ pc' = "done"
                /\ ci' = ci
           ELSE /\ result' = result
                /\ pc' = "cmd"
                /\ ci' = ci + 1
    /\ UNCHANGED <<cacheVars, unitVars>>
    /\ UNCHANGED <<targets, ti, ji, si, log, recreated, fg, shellStatus,
                   current_dir, cwd>>

BuildNext ==
    \/ Begin
    \/ NextTarget
    \/ NextJob
    \/ NextStep
    \/ NextCommand
    \/ ShellExit
    \/ ChildExit

\* ------------------------------------------------------- cache.rs: data

None == <<>>

\* A hash of 12 characters and one of 3.
HashLong == <<"a", "b", "c", "d", "e", "f", "g", "h", "1", "2", "3", "4">>
HashShort == <<"a", "b", "c">>

\* package::Meta: uri, hash and download_size are optional.
AllMetas ==
    [uri : {"none", "invalid", "ok"},
     hash : {None, HashShort, HashLong},
     download_size : {None, <<MaxChunks>>}]

PlainMeta == [uri |-> "ok", hash |-> HashLong, download_size |-> None]

\* The requests made: the plain one and those that differ from it in one
\* field.
Metas ==
    {m \in AllMetas :
        Cardinality({f \in {"uri", "hash", "download_size"} : m[f] # PlainMeta[f]}) <= 1}

\* The bytes of a content payload of n bytes: byte i has value i.
ContentOf(n) == [i \in 1..n |-> i]

\* The digest of a byte string (no two strings share one).
RECURSIVE DigestOf(_)
DigestOf(b) ==
    IF b = <<>> THEN 1
    ELSE DigestOf(SubSeq(b, 1, Len(b) - 1)) * (MaxContent + 2) + b[Len(b)]

\* The bytes [start, end) of a byte string.
Range(b, start, end) == SubSeq(b, start + 1, end)

\* payload::Index entries over a content of n bytes: a range within it, with
\* the digest of the range's bytes or with a digest (0) of other bytes.
IndexEntries(n) ==
    {x \in [start : 0..n, end : 0..n, digest : 0..DigestOf(ContentOf(n))] :
        /\ x.start <= x.end
        /\ x.digest \in {0, DigestOf(Range(ContentOf(n), x.start, x.end))}}

\* The packages, as their stone file parses: with or without a Content
\* payload, and the Index entries.
Stones ==
    UNION {[content : {<<ContentOf(n)>>},
            indices : UNION {[1..k -> IndexEntries(n)] : k \in 0..MaxIndex}] :
           n \in 0..MaxContent}
    \cup [content : {None},
          indices : UNION {[1..k -> IndexEntries(0)] : k \in 0..MaxIndex}]

\* The body the remote serves for the package: its chunks, in order.
Body == [i \in 1..MaxChunks |-> i]

HexDigits == <<"0", "1", "2", "3", "4", "5", "6", "7", "8", "9", "a", "b", "c", "d", "e", "f">>

RECURSIVE HexOf(_)
HexOf(n) == IF n < 16 THEN <<HexDigits[n + 1]>> ELSE HexOf(n \div 16) \o <<HexDigits[(n % 16) + 1]>>

\* format!("{:02x}", digest): lowercase hex, padded with zeros to two digits.
Format02x(n) == IF n < 16 THEN <<"0">> \o HexOf(n) ELSE HexOf(n)

DownloadPathFirstFiveTwice(hash) ==
    IF Len(hash) < 5
    THEN [kind |-> "Err", path |-> <<>>]
    ELSE [kind |-> "Ok",
          path |-> <<"downloads", "v1", SubSeq(hash, 1, 5), SubSeq(hash, 1, 5), hash>>]

\* download_path: Err(MalformedHash) under 5 characters, else
\* downloads/v1/<first 5>/<last 5>/<hash>.
DownloadPath(hash) ==
    IF Len(hash) < 5
    THEN [kind |-> "Err", path |-> <<>>]
    ELSE [kind |-> "Ok",
          path |-> <<"downloads", "v1", SubSeq(hash, 1, 5),
                     SubSeq(hash, Len(hash) - 4, Len(hash)), hash>>]

AssetPathShardsOver10(hash) ==
    IF Len(hash) > 10
    THEN <<"assets", "v2", SubSeq(hash, 1, 2), SubSeq(hash, 3, 4), SubSeq(hash, 5, 6), hash>>
    ELSE <<"assets", "v2", hash>>

\* asset_path: assets/v2/<0..2>/<2..4>/<4..6>/<hash> from 10 characters on,
\* else assets/v2/<hash>.
AssetPath(hash) ==
    IF Len(hash) >= 10
    THEN <<"assets", "v2", SubSeq(hash, 1, 2), SubSeq(hash, 3, 4), SubSeq(hash, 5, 6), hash>>
    ELSE <<"assets", "v2", hash>>

\* installation.cache_path("content").join(id)
ContentPath == <<"content", "id">>

TryExistsNever(path) == FALSE

\* fs::try_exists
TryExists(path) == path \in DOMAIN fs

\* The file system with data written at path.
Written(f, path, data) ==
    [p \in DOMAIN f \cup {path} |-> IF p = path THEN data ELSE f[p]]

\* The file system with path removed.
Removed(f, path) == [p \in DOMAIN f \ {path} |-> f[p]]

NoFetch == [kind |-> "none", was_cached |-> FALSE, err |-> "none"]
FetchOk(cached) == [kind |-> "Ok", was_cached |-> cached, err |-> "none"]
FetchErr(e) == [kind |-> "Err", was_cached |-> FALSE, err |-> e]

NoUnpack == [kind |-> "none", err |-> "none", extracted |-> FALSE]
UnpackOk(extracted) == [kind |-> "Ok", err |-> "none", extracted |-> extracted]
UnpackErr(e) == [kind |-> "Err", err |-> e, extracted |-> FALSE]

NoMeta == [uri |-> "none", hash |-> None, download_size |-> None]

CacheInit ==
    /\ stone \in Stones
    /\ fs = <<>>
    /\ download = None
    /\ fpc = "idle"
    /\ freq = NoMeta
    /\ netUsed = FALSE
    /\ progress = <<>>
    /\ fetchResult = NoFetch
    /\ upc = "idle"
    /\ uself = None
    /\ uk = 0
    /\ unpackResult = NoUnpack

\* No fetch and no unpack: the cache as SpecBuild leaves it.
CacheIdle ==
    /\ stone = [content |-> None, indices |-> <<>>]
    /\ fs = <<>>
    /\ download = None
    /\ fpc = "idle"
    /\ freq = NoMeta
    /\ netUsed = FALSE
    /\ progress = <<>>
    /\ fetchResult = NoFetch
    /\ upc = "idle"
    /\ uself = None
    /\ uk = 0
    /\ unpackResult = NoUnpack

\* No build: the runner as SpecCache leaves it.
BuildIdle ==
    /\ targets = <<>>
    /\ pc = "init"
    /\ ti = 0 /\ ji = 0 /\ si = 0 /\ ci = 0
    /\ live = {}
    /\ log = <<>>
    /\ recreated = <<>>
    /\ fg = "host"
    /\ childStatus = NoStatus
    /\ shellStatus = NoStatus
    /\ result = NoResult
    /\ disk = <<>>
    /\ current_dir = "none"
    /\ cwd = NoDir

\* ------------------------------------------------------ cache.rs: fetch

\* fetch returns without streaming: the call is over.
FetchReturns(r, dl) ==
    /\ fetchResult' = r
    /\ download' = dl
    /\ fpc' = "idle"

\* fetch, up to the first chunk: the URI and the hash are taken from the
\* meta, the download path is computed, a file there is a cache hit, else
\* the request is sent and the file created.
FetchCall(meta) ==
    /\ fpc = "idle"
    /\ upc = "idle"
    /\ freq' = meta
    /\ progress' = <<>>
    /\ IF meta.uri = "none" THEN
            /\ FetchReturns(FetchErr("MissingUri"), download)
            /\ UNCHANGED fs /\ netUsed' = FALSE
       ELSE IF meta.uri = "invalid" THEN
            /\ FetchReturns(FetchErr("InvalidUrl"), download)
            /\ UNCHANGED fs /\ netUsed' = FALSE
       ELSE IF meta.hash = None THEN
            /\ FetchReturns(FetchErr("MissingHash"), download)
            /\ UNCHANGED fs /\ netUsed' = FALSE
       ELSE IF DownloadPath(meta.hash).kind = "Err" THEN
            /\ FetchReturns(FetchErr("MalformedHash"), download)
            /\ UNCHANGED fs /\ netUsed' = FALSE
       ELSE IF TryExists(DownloadPath(meta.hash).path) THEN
            /\ FetchReturns(FetchOk(TRUE),
                    <<[path |-> DownloadPath(meta.hash).path, was_cached |-> TRUE]>>)
            /\ UNCHANGED fs /\ netUsed' = FALSE
       ELSE \/ \* request::get fails
               /\ FetchReturns(FetchErr("Request"), download)
               /\ UNCHANGED fs /\ netUsed' = TRUE
            \/ \* request::get answers; File::create
               /\ netUsed' = TRUE
               /\ fs' = Written(fs, DownloadPath(meta.hash).path, <<>>)
               /\ fpc' = "streaming"
               /\ UNCHANGED <<fetchResult, download>>
    /\ UNCHANGED <<stone, upc, uself, uk, unpackResult>>
    /\ UNCHANGED <<buildVars, unitVars>>

FetchPath == DownloadPath(freq.hash).path

\* The total a Progress reports: meta.download_size.unwrap_or(total)
ProgressTotal(meta, total) ==
    IF meta.download_size # None THEN meta.download_size[1] ELSE total

\* while let Some(chunk) = bytes.next(): the next chunk is written and
\* reported, or the stream or the write fails and fetch returns the error.
FetchChunk ==
    /\ fpc = "streaming"
    /\ \/ /\ Len(fs[FetchPath]) < Len(Body)
          /\ fs' = Written(fs, FetchPath, Append(fs[FetchPath], Body[Len(fs[FetchPath]) + 1]))
          /\ progress' = Append(progress,
                [delta |-> 1, completed |-> Len(fs[FetchPath]) + 1,
                 total |-> ProgressTotal(freq, Len(fs[FetchPath]) + 1)])
          /\ UNCHANGED <<fpc, fetchResult, download>>
       \/ /\ Len(fs[FetchPath]) < Len(Body)
          /\ FetchReturns(FetchErr("Request"), download)
          /\ UNCHANGED <<fs, progress>>
       \/ /\ Len(fs[FetchPath]) < Len(Body)
          /\ FetchReturns(FetchErr("Io"), download)
          /\ UNCHANGED <<fs, progress>>
    /\ UNCHANGED <<stone, freq, netUsed, upc, uself, uk, unpackResult>>
    /\ UNCHANGED <<buildVars, unitVars>>

\* The stream has ended: out.flush(), Ok(Download { was_cached: false }).
FetchEnd ==
    /\ fpc = "streaming"
    /\ Len(fs[FetchPath]) = Len(Body)
    /\ FetchReturns(FetchOk(FALSE), <<[path |-> FetchPath, was_cached |-> FALSE]>>)
    /\ UNCHANGED <<stone, fs, freq, netUsed, progress, upc, uself, uk, unpackResult>>
    /\ UNCHANGED <<buildVars, unitVars>>

\* ----------------------------------------------------- cache.rs: unpack

\* stone::read and reader.payloads(): the file parses when it holds the
\* whole body.
Parses(data) == data = Body

\* check_assets_exist: every index entry's asset path exists.
CheckAssetsExist(indicies) ==
    \A k \in 1..Len(indicies) : TryExists(AssetPath(Format02x(indicies[k].digest)))

SkipUnpackingNever(self, indicies) == FALSE

SkipUnpackingUncached(self, indicies) == ~self.was_cached /\ CheckAssetsExist(indicies)

\* if self.was_cached && check_assets_exist(..)
SkipUnpacking(self, indicies) == self.was_cached /\ CheckAssetsExist(indicies)

UnpackReturns(r) ==
    /\ unpackResult' = r
    /\ upc' = "idle"
    /\ uself' = None
    /\ uk' = 0

\* unpack, up to the content file: the stone file is read, the cached
\* shortcut taken or the content file opened for the extraction.
UnpackCall ==
    /\ upc = "idle"
    /\ fpc = "idle"
    /\ download # None
    /\ download' = None
    /\ LET self == download[1] IN
       IF ~Parses(fs[self.path]) THEN
            /\ UnpackReturns(UnpackErr("Format"))
            /\ UNCHANGED fs
       ELSE IF SkipUnpacking(self, stone.indices) THEN
            /\ UnpackReturns(UnpackOk(FALSE))
            /\ UNCHANGED fs
       ELSE IF stone.content = None THEN
            /\ UnpackReturns(UnpackErr("MissingContent"))
            /\ UNCHANGED fs
       ELSE /\ fs' = IF TryExists(ContentPath) THEN fs ELSE Written(fs, ContentPath, <<>>)
            /\ upc' = "extract"
            /\ uself' = download
            /\ UNCHANGED <<uk, unpackResult>>
    /\ UNCHANGED <<stone, fpc, freq, netUsed, progress, fetchResult>>
    /\ UNCHANGED <<buildVars, unitVars>>

\* reader.unpack_content: the content payload is streamed into the content
\* file.
UnpackContent ==
    /\ upc = "extract"
    /\ fs' = Written(fs, ContentPath, stone.content[1])
    /\ upc' = "split"
    /\ uk' = 1
    /\ UNCHANGED <<stone, download, fpc, freq, netUsed, progress, fetchResult,
                   uself, unpackResult>>
    /\ UNCHANGED <<buildVars, unitVars>>

CurIndex == stone.indices[uk]

CurAsset == AssetPath(Format02x(CurIndex.digest))

\* File::create(asset_path(hex(idx.digest))): the asset file is created or
\* truncated.
UnpackAssetCreate ==
    /\ upc = "split"
    /\ uk <= Len(stone.indices)
    /\ fs' = Written(fs, CurAsset, <<>>)
    /\ upc' = "copy"
    /\ UNCHANGED <<stone, download, fpc, freq, netUsed, progress, fetchResult,
                   uself, uk, unpackResult>>
    /\ UNCHANGED <<buildVars, unitVars>>

\* copy(&mut split_file, &mut output): the range [start, end) of the content
\* file goes into the asset file.
UnpackAssetCopy ==
    /\ upc = "copy"
    /\ fs' = Written(fs, CurAsset, Range(fs[ContentPath], CurIndex.start, CurIndex.end))
    /\ upc' = "split"
    /\ uk' = uk + 1
    /\ UNCHANGED <<stone, download, fpc, freq, netUsed, progress, fetchResult,
                   uself, unpackResult>>
    /\ UNCHANGED <<buildVars, unitVars>>

\* remove_file(&content_path); Ok(UnpackedAsset { payloads })
UnpackFinish ==
    /\ upc = "split"
    /\ uk > Len(stone.indices)
    /\ fs' = Removed(fs, ContentPath)
    /\ UnpackReturns(UnpackOk(TRUE))
    /\ UNCHANGED <<stone, download, fpc, freq, netUsed, progress, fetchResult>>
    /\ UNCHANGED <<buildVars, unitVars>>

CacheNext ==
    \/ \E meta \in Metas : FetchCall(meta)
    \/ FetchChunk
    \/ FetchEnd
    \/ UnpackCall
    \/ UnpackContent
    \/ UnpackAssetCreate
    \/ UnpackAssetCopy
    \/ UnpackFinish

\* The asset files the copy loop of unpack leaves for the index entries,
\* taken in order from the content bytes: a later entry of the same digest
\* rewrites the file of an earlier one.
RECURSIVE Unpacked(_, _, _)
Unpacked(f, bytes, indicies) ==
    IF indicies = <<>> THEN f
    ELSE Unpacked(
            Written(f, AssetPath(Format02x(Head(indicies).digest)),
                    Range(bytes, Head(indicies).start, Head(indicies).end)),
            bytes, Tail(indicies))

\* The content bytes of a package, none without a Content payload.
ContentBytes(st) == IF st.content = None THEN <<>> ELSE st.content[1]

\* The disk and the Download as a fetch of HashLong leaves them: the stone
\* file complete at its download path, the Download fresh or from the cache,
\* the package's assets absent or unpacked earlier.
UnpackInit ==
    /\ stone \in Stones
    /\ \E cached \in BOOLEAN, unpacked \in BOOLEAN :
        /\ download = <<[path |-> DownloadPath(HashLong).path, was_cached |-> cached]>>
        /\ fs = LET f == Written(<<>>, DownloadPath(HashLong).path, Body)
                IN  IF unpacked THEN Unpacked(f, ContentBytes(stone), stone.indices) ELSE f
        /\ fetchResult = FetchOk(cached)
        /\ netUsed = ~cached
    /\ fpc = "idle"
    /\ freq = PlainMeta
    /\ progress = <<>>
    /\ upc = "idle"
    /\ uself = None
    /\ uk = 0
    /\ unpackResult = NoUnpack

UnpackNext ==
    \/ UnpackCall
    \/ UnpackContent
    \/ UnpackAssetCreate
    \/ UnpackAssetCopy
    \/ UnpackFinish

\* ---------------------------------------------------- header/mod.rs

\* STONE_MAGIC: u32 = 0x006d6f73
STONE_MAGIC == 7171955

\* size_of::<AgnosticHeader>(): magic 4, data 24, version 4.
MagicSize == 4
DataSize == 24
VersionSize == 4
HeaderSize == MagicSize + DataSize + VersionSize

\* u32::to_be_bytes
ToBeBytes(n) ==
    <<n \div 16777216, (n \div 65536) % 256, (n \div 256) % 256, n % 256>>

\* u32::to_le_bytes
ToLeBytes(n) ==
    <<n % 256, (n \div 256) % 256, (n \div 65536) % 256, n \div 16777216>>

\* u32::from_be_bytes
FromBeBytes(b) == ((b[1] * 256 + b[2]) * 256 + b[3]) * 256 + b[4]

\* Version::V1 = 1
VersionV1 == 1

\* v1::Header (header/v1.rs): a value that encodes to the 24 version-specific
\* bytes, here its payload count alone.
V1Headers == [num_payloads : 0..MaxPayloads]

\* v1::Header::encode
V1Encode(h) == [i \in 1..DataSize |-> IF i = 2 THEN h.num_payloads ELSE 0]

\* v1::Header::decode: the header whose encoding the bytes are, or an error.
V1Decode(data) ==
    IF \E h \in V1Headers : V1Encode(h) = data
    THEN [kind |-> "Ok", v1 |-> CHOOSE h \in V1Headers : V1Encode(h) = data]
    ELSE [kind |-> "Err", v1 |-> [num_payloads |-> 0]]

\* enum Header { V1(v1::Header) }
Headers == [kind : {"V1"}, v1 : V1Headers]

\* Header::version
HeaderVersion(h) == VersionV1

HeaderEncodeLittleEndian(h) ==
    [magic |-> ToLeBytes(STONE_MAGIC),
     data |-> V1Encode(h.v1),
     version |-> ToLeBytes(HeaderVersion(h))]

\* Header::encode
HeaderEncode(h) ==
    [magic |-> ToBeBytes(STONE_MAGIC),
     data |-> V1Encode(h.v1),
     version |-> ToBeBytes(HeaderVersion(h))]

\* The 32 bytes of an AgnosticHeader (repr(C)), in field order.
AgnosticBytes(a) == a.magic \o a.data \o a.version

\* ReadExt::read_array at offset pos: the next n bytes, or the error the
\* source gives once it has no more bytes.
ReadArray(r, pos, n) ==
    IF pos + n <= Len(r.bytes)
    THEN [kind |-> "Ok", bytes |-> SubSeq(r.bytes, pos + 1, pos + n), err |-> "none"]
    ELSE [kind |-> "Err", bytes |-> <<>>, err |-> r.then]

\* AgnosticHeader::decode: magic, data and version are read in turn, the
\* first error is returned.
AgnosticHeaderDecode(r) ==
    LET magic == ReadArray(r, 0, MagicSize)
        data == ReadArray(r, MagicSize, DataSize)
        version == ReadArray(r, MagicSize + DataSize, VersionSize)
    IN  IF magic.kind = "Err" THEN [kind |-> "Err", err |-> magic.err]
        ELSE IF data.kind = "Err" THEN [kind |-> "Err", err |-> data.err]
        ELSE IF version.kind = "Err" THEN [kind |-> "Err", err |-> version.err]
        ELSE [kind |-> "Ok", magic |-> magic.bytes, data |-> data.bytes,
              version |-> version.bytes]

DecodeOk(h) == [kind |-> "Ok", header |-> h, err |-> "none", v |-> 0]
DecodeErr(e, v) == [kind |-> "Err", header |-> None, err |-> e, v |-> v]

DecodeErrorFromAlwaysIo(kind) == DecodeErr("Io", 0)

\* impl From<io::Error> for DecodeError
DecodeErrorFrom(kind) ==
    IF kind = "UnexpectedEof" THEN DecodeErr("NotEnoughBytes", 0)
    ELSE DecodeErr("Io", 0)

HeaderDecodeVersionFirst(r) ==
    LET a == AgnosticHeaderDecode(r) IN
    IF a.kind = "Err" THEN DecodeErrorFrom(a.err)
    ELSE IF FromBeBytes(a.version) # VersionV1
         THEN DecodeErr("UnknownVersion", FromBeBytes(a.version))
    ELSE IF STONE_MAGIC # FromBeBytes(a.magic) THEN DecodeErr("InvalidMagic", 0)
    ELSE IF V1Decode(a.data).kind = "Err" THEN DecodeErr("V1", 0)
    ELSE DecodeOk([kind |-> "V1", v1 |-> V1Decode(a.data).v1])

\* Header::decode
HeaderDecode(r) ==
    LET a == AgnosticHeaderDecode(r) IN
    IF a.kind = "Err" THEN DecodeErrorFrom(a.err)
    ELSE IF STONE_MAGIC # FromBeBytes(a.magic) THEN DecodeErr("InvalidMagic", 0)
    ELSE IF FromBeBytes(a.version) # VersionV1
         THEN DecodeErr("UnknownVersion", FromBeBytes(a.version))
    ELSE IF V1Decode(a.data).kind = "Err" THEN DecodeErr("V1", 0)
    ELSE DecodeOk([kind |-> "V1", v1 |-> V1Decode(a.data).v1])

\* The magic fields fed to decode: the magic, zeros, the magic in little
\* endian and the magic with its last byte off by one.
MagicSample ==
    {ToBeBytes(STONE_MAGIC), <<0, 0, 0, 0>>, ToLeBytes(STONE_MAGIC),
     ToBeBytes(STONE_MAGIC + 1)}

\* The version fields fed to decode, as numbers: 1, its neighbours, 9, and
\* the numbers whose big endian bytes are a 1 in another place.
VersionSample == {0, 1, 2, 9, 256, 16777216}

\* The data fields fed to decode: those of the V1 headers, and bytes that
\* are no V1 header.
DataSample ==
    {V1Encode(h) : h \in V1Headers} \cup {[i \in 1..DataSize |-> 255]}

Envelopes ==
    {m \o d \o ToBeBytes(v) : m \in MagicSample, d \in DataSample, v \in VersionSample}

\* The byte sources: every prefix of an envelope, and the envelopes followed
\* by more bytes; past its bytes a source is at its end or fails otherwise.
Readers ==
    [bytes : {SubSeq(e, 1, n) : e \in Envelopes, n \in 0..HeaderSize}
                \cup {e \o ToBeBytes(v) : e \in Envelopes, v \in {1, 9}},
     then : {"UnexpectedEof", "Other"}]

NoReader == [bytes |-> <<>>, then |-> "none"]

\* Either bytes to decode, or a Header to encode (and decode again).
HeaderInit ==
    /\ \/ reader \in Readers /\ header = None
       \/ reader = NoReader /\ header \in {<<h>> : h \in Headers}
    /\ agnostic = None
    /\ decoded = None

HeaderIdle ==
    /\ reader = NoReader
    /\ header = None
    /\ agnostic = None
    /\ decoded = None

\* header.encode(), the 32 bytes then being the source of a decode.
Encode ==
    /\ header # None
    /\ agnostic = None
    /\ agnostic' = <<HeaderEncode(header[1])>>
    /\ reader' = [bytes |-> AgnosticBytes(HeaderEncode(header[1])), then |-> "UnexpectedEof"]
    /\ UNCHANGED <<header, decoded>>
    /\ UNCHANGED <<buildVars, cacheVars, storeVars, planVars, lineVars, loggedVars, raceVars>>

\* Header::decode(reader)
Decode ==
    /\ reader # NoReader
    /\ decoded = None
    /\ decoded' = <<HeaderDecode(reader)>>
    /\ UNCHANGED <<reader, header, agnostic>>
    /\ UNCHANGED <<buildVars, cacheVars, storeVars, planVars, lineVars, loggedVars, raceVars>>

HeaderNext ==
    \/ Encode
    \/ Decode

\* ------------------------------- cache.rs: download_path and asset_path

\* The hash of 16 characters of the sharded layout, abcdef0123456789.
HashSharded ==
    <<"a", "b", "c", "d", "e", "f", "0", "1", "2", "3", "4", "5", "6", "7", "8", "9">>

\* The hashes the paths are asked for: the beginnings of HashSharded of 2,
\* 4, 5, 9, 10 and 16 characters, HashLong and HashShort.
HashSample ==
    {SubSeq(HashSharded, 1, n) : n \in {2, 4, 5, 9, 10, 16}}
        \cup {HashLong, HashShort}

\* The directory of a path: directory.join(hash) without its last component.
Parent(path) == SubSeq(path, 1, Len(path) - 1)

\* fs::create_dir_all: the directory and every directory above it.
CreateDirAll(d, directory) ==
    d \cup {SubSeq(directory, 1, n) : n \in 1..Len(directory)}

\* if !directory.exists() { create_dir_all(&directory) }
EnsureDir(d, directory) ==
    IF directory \in d THEN d ELSE CreateDirAll(d, directory)

NoCall == [fn |-> "none", hash |-> <<>>, kind |-> "none", path |-> <<>>]

StoreInit ==
    /\ dirs = {}
    /\ call = NoCall
    /\ prev = NoCall

StoreIdle ==
    /\ dirs = {}
    /\ call = NoCall
    /\ prev = NoCall

\* download_path(installation, hash)
DownloadPathCall(hash) ==
    /\ prev' = call
    /\ IF DownloadPath(hash).kind = "Err"
       THEN /\ call' = [fn |-> "download_path", hash |-> hash,
                        kind |-> "MalformedHash", path |-> hash]
            /\ dirs' = dirs
       ELSE /\ call' = [fn |-> "download_path", hash |-> hash,
                        kind |-> "Ok", path |-> DownloadPath(hash).path]
            /\ dirs' = EnsureDir(dirs, Parent(DownloadPath(hash).path))
    /\ UNCHANGED <<buildVars, cacheVars, headerVars, planVars, lineVars, loggedVars, raceVars>>

\* asset_path(installation, hash)
AssetPathCall(hash) ==
    /\ prev' = call
    /\ call' = [fn |-> "asset_path", hash |-> hash, kind |-> "Ok", path |-> AssetPath(hash)]
    /\ dirs' = EnsureDir(dirs, Parent(AssetPath(hash)))
    /\ UNCHANGED <<buildVars, cacheVars, headerVars, planVars, lineVars, loggedVars, raceVars>>

StoreNext ==
    \/ \E hash \in HashSample : DownloadPathCall(hash)
    \/ \E hash \in HashSample : AssetPathCall(hash)

\* --------------------------------------------------- builder.rs: new

\* pgo::Stage
Stages == <<"Stage1", "Stage2", "Use">>

\* What pgo::stages returns for a build target: None without PGO, else the
\* stages the recipe declares for it, in their order.
StageChoices ==
    {None} \cup
    {<<Flatten([k \in 1..Len(Stages) |-> IF k \in ks THEN <<Stages[k]>> ELSE <<>>])>> :
        ks \in SUBSET (1..Len(Stages)) \ {{}}}

\* The loaded recipes: the build targets it gives (recipe.build_targets()),
\* per build target the answer of pgo::stages, and the build target (or 0 for
\* none) for which Job::new fails.
Recipes ==
    [build_targets :
        {bts \in UNION {[1..n -> 1..MaxTargets] : n \in 0..MaxTargets} :
            \A i, k \in 1..Len(bts) : bts[i] = bts[k] => i = k},
     stages : [1..MaxTargets -> StageChoices],
     bad : 0..MaxTargets]

\* pgo::stages(&recipe, build_target)
PgoStages(r, build_target) == r.stages[build_target]

\* Job::new(build_target, stage, &recipe, ..)
JobNew(r, build_target, stage) ==
    IF r.bad = build_target
    THEN [kind |-> "Err", job |-> None]
    ELSE [kind |-> "Ok", job |-> <<[target |-> build_target, pgo_stage |-> stage]>>]

StagesOrEmpty(stages) ==
    IF stages # None THEN [k \in 1..Len(stages[1]) |-> <<stages[1][k]>>] ELSE <<>>

\* stages.map(|stages| stages.into_iter().map(Some).collect())
\*       .unwrap_or_else(|| vec![None])
StagesOrNone(stages) ==
    IF stages # None THEN [k \in 1..Len(stages[1]) |-> <<stages[1][k]>>] ELSE <<None>>

\* The jobs of a build target: one Job::new per stage, in order.
TargetJobs(r, build_target) ==
    LET stages == StagesOrNone(PgoStages(r, build_target))
    IN  [k \in 1..Len(stages) |-> JobNew(r, build_target, stages[k])]

NoBuilder == [kind |-> "none", err |-> "none", targets |-> <<>>]
BuilderOk(ts) == [kind |-> "Ok", err |-> "none", targets |-> ts]
BuilderErr(e) == [kind |-> "Err", err |-> e, targets |-> <<>>]

\* Builder::new, from the loaded recipe on.
BuilderNew(r) ==
    IF r.build_targets = <<>> THEN BuilderErr("NoBuildTargets")
    ELSE IF \E t \in 1..Len(r.build_targets) :
                \E k \in 1..Len(TargetJobs(r, r.build_targets[t])) :
                    TargetJobs(r, r.build_targets[t])[k].kind = "Err"
         THEN BuilderErr("Job")
    ELSE BuilderOk([t \in 1..Len(r.build_targets) |->
            [build_target |-> r.build_targets[t],
             jobs |-> [k \in 1..Len(TargetJobs(r, r.build_targets[t])) |->
                        TargetJobs(r, r.build_targets[t])[k].job[1]]]])

NoRecipe == [build_targets |-> <<>>, stages |-> <<>>, bad |-> 0]

PlanInit ==
    /\ recipe \in Recipes
    /\ built = NoBuilder

PlanIdle ==
    /\ recipe = NoRecipe
    /\ built = NoBuilder

\* Builder::new(recipe_path, env, profile, ccache)
New ==
    /\ built = NoBuilder
    /\ built' = BuilderNew(recipe)
    /\ UNCHANGED recipe
    /\ UNCHANGED <<buildVars, cacheVars, headerVars, storeVars, lineVars, loggedVars, raceVars>>

PlanNext == New

\* ----------------------------------------- builder.rs: breakpoint_line

\* The text of the recipe lines the sources are made of (one character per
\* element).
LineName == <<"n", "a", "m", "e", ":", " ", "x">>
LineBuildBlock == <<"b", "u", "i", "l", "d", ":", " ", "|">>
LineSetupFolded == <<"s", "e", "t", "u", "p", " ", ":", " ", ">">>
LineProfile == <<" ", "-", " ", "a", "r", "m", ":">>
LineInBuildBlock == <<" ", " ", "b", "u", "i", "l", "d", ":", " ", "|">>
LineInRebuild == <<" ", " ", "r", "e", "b", "u", "i", "l", "d", ":", " ", "x">>
LineInText == <<" ", " ", "m", "a", "k", "e">>

LineSample ==
    {LineName, LineBuildBlock, LineSetupFolded, LineProfile, LineInBuildBlock,
     LineInRebuild, LineInText}

\* recipe.source written from lines: each line ended by a newline.
SourceOf(ls) == Flatten([k \in 1..Len(ls) |-> ls[k] \o <<"\n">>])

\* The recipes asked about: the lines written, the source they make and the
\* profile key of the build target.
RecipeSources ==
    {[written |-> ls, source |-> SourceOf(ls), profile |-> pk] :
        ls \in UNION {[1..n -> LineSample] : n \in 0..MaxLines},
        pk \in {None, <<<<"a", "r", "m">>>>}}

\* str::lines: the text between the newlines, a last line needing none.
RECURSIVE Lines(_, _)
Lines(text, cur) ==
    IF text = <<>> THEN (IF cur = <<>> THEN <<>> ELSE <<cur>>)
    ELSE IF Head(text) = "\n" THEN <<cur>> \o Lines(Tail(text), <<>>)
    ELSE Lines(Tail(text), Append(cur, Head(text)))

\* str::trim
RECURSIVE Trim(_)
Trim(str) ==
    IF str = <<>> THEN <<>>
    ELSE IF Head(str) = " " THEN Trim(Tail(str))
    ELSE IF str[Len(str)] = " " THEN Trim(SubSeq(str, 1, Len(str) - 1))
    ELSE str

\* str::split_once(':'): the text before and after the first colon.
SplitOnce(str) ==
    IF \E i \in 1..Len(str) : str[i] = ":"
    THEN LET i == CHOOSE i \in 1..Len(str) :
                    str[i] = ":" /\ \A k \in 1..(i - 1) : str[k] # ":"
         IN  <<SubSeq(str, 1, i - 1), SubSeq(str, i + 1, Len(str))>>
    ELSE None

\* str::ends_with
EndsWith(str, key) ==
    Len(str) >= Len(key) /\ SubSeq(str, Len(str) - Len(key) + 1, Len(str)) = key

\* str::starts_with(char)
StartsWith(str, c) == str # <<>> /\ str[1] = c

\* chars().next()
FirstChar(str) == IF str = <<>> THEN None ELSE <<str[1]>>

\* let has_key = |line, key| ..
HasKey(str, key) ==
    SplitOnce(str) # None /\ EndsWith(Trim(SplitOnce(str)[1]), key)

\* let indented = line.trim().chars().next() != line.chars().next()
Indented(str) == FirstChar(Trim(str)) # FirstChar(str)

\* .enumerate().filter(..): the lines at the depth of the profile, each with
\* its 0-based number.
FilterLines(ls, profile) ==
    SelectSeq([k \in 1..Len(ls) |-> <<k - 1, ls[k]>>],
              LAMBDA e : IF profile = None THEN ~Indented(e[2]) ELSE Indented(e[2]))

\* .skip_while(..): with a profile, the lines before its key are dropped.
RECURSIVE SkipWhile(_, _)
SkipWhile(es, profile) ==
    IF es = <<>> \/ profile = None THEN es
    ELSE IF ~HasKey(Head(es)[2], profile[1]) THEN SkipWhile(Tail(es), profile)
    ELSE es

\* let step = match step { .. }: the key of the step, none for Prepare.
StepKey(step) ==
    CASE step = "Prepare" -> None
      [] step = "Setup" -> <<<<"s", "e", "t", "u", "p">>>>
      [] step = "Build" -> <<<<"b", "u", "i", "l", "d">>>>
      [] step = "Install" -> <<<<"i", "n", "s", "t", "a", "l", "l">>>>
      [] step = "Check" -> <<<<"c", "h", "e", "c", "k">>>>
      [] step = "Workload" -> <<<<"w", "o", "r", "k", "l", "o", "a", "d">>>>

BlockOffsetPipeOnly(str) ==
    LET rest == SplitOnce(str)[2]
    IN  IF StartsWith(Trim(rest), "|") THEN 1 ELSE 0

\* If block, string starts on next line.
BlockOffset(str) ==
    LET rest == SplitOnce(str)[2]
    IN  IF StartsWith(Trim(rest), "|") \/ StartsWith(Trim(rest), ">") THEN 1 ELSE 0

\* lines.find_map(..): the first line with the step's key gives its 1-based
\* number, plus one for a block, plus breakpoint.line_num.
RECURSIVE FindMap(_, _, _)
FindMap(es, key, breakpoint) ==
    IF es = <<>> THEN None
    ELSE IF HasKey(Head(es)[2], key)
         THEN <<Head(es)[1] + 1 + BlockOffset(Head(es)[2]) + breakpoint.line_num>>
    ELSE FindMap(Tail(es), key, breakpoint)

\* breakpoint_line(breakpoint, recipe, build_target, step), the profile key
\* being recipe.build_target_profile_key(build_target).
BreakpointLine(breakpoint, r, step) ==
    IF StepKey(step) = None THEN None
    ELSE FindMap(SkipWhile(FilterLines(Lines(r.source, <<>>), r.profile), r.profile),
                 StepKey(step)[1], breakpoint)

\* The steps breakpoint_line is asked about.
StepsAsked == {"Prepare", "Setup", "Build"}

Pending == [returned |-> FALSE, value |-> None]

Returned(v) == [returned |-> TRUE, value |-> v]

NotAsked ==
    [recipe |-> [written |-> <<>>, source |-> <<>>, profile |-> None],
     step |-> "Prepare", line_num |-> 0]

LineInit ==
    /\ asked \in [recipe : RecipeSources, step : StepsAsked, line_num : 0..MaxLineNum]
    /\ line = Pending

LineIdle ==
    /\ asked = NotAsked
    /\ line = Pending

\* breakpoint_line(breakpoint, &self.recipe, job.target, *step)
Resolve ==
    /\ line = Pending
    /\ line' = Returned(BreakpointLine([line_num |-> asked.line_num], asked.recipe, asked.step))
    /\ UNCHANGED asked
    /\ UNCHANGED <<buildVars, cacheVars, headerVars, storeVars, planVars, loggedVars, raceVars>>

LineNext == Resolve

\* ------------------------------------------------- builder.rs: logged

Streams == {"stdout", "stderr"}

\* The steps logged is called for in SpecLogged.
LoggedSteps == {"Prepare", "Build"}

\* What a child writes to a pipe: lines, numbered per stream, that are
\* valid UTF-8 or not.
LineOf(s, k, ok) == [stream |-> s, k |-> k, utf8 |-> ok]

\* format!("{}{pgo}{kind}", "|".dim()): a bar, one more for a PGO job, the
\* step's abbreviation (here the step's name) and a bar.
Tag(step, is_pgo) ==
    <<"|">> \o (IF is_pgo THEN <<"|">> ELSE <<>>) \o <<step, "|">>

\* The statuses drawn for the children of SpecLogged: success and death by
\* SIGINT.
LoggedStatuses ==
    {[kind |-> "exited", n |-> 0], [kind |-> "signaled", n |-> 2]}

NoArgs == [step |-> "none", is_pgo |-> FALSE]

LoggedInit ==
    /\ lpc = "idle"
    /\ largs = NoArgs
    /\ lchild = 0
    /\ lalive = FALSE
    /\ lstatus = NoStatus
    /\ forward = 0
    /\ ints = <<>>
    /\ written = [s \in Streams |-> <<>>]
    /\ rd = [s \in Streams |-> 0]
    /\ rst = [s \in Streams |-> "none"]
    /\ emitted = <<>>
    /\ lresult = NoStatus

LoggedIdle == LoggedInit

\* logged is called: the child is spawned with both pipes and the two log
\* threads are started on them.
LoggedSpawn ==
    /\ lpc = "idle"
    /\ lchild < MaxChildren
    /\ \E step \in LoggedSteps, is_pgo \in BOOLEAN :
        largs' = [step |-> step, is_pgo |-> is_pgo]
    /\ lchild' = lchild + 1
    /\ lalive' = TRUE
    /\ lstatus' = NoStatus
    /\ written' = [s \in Streams |-> <<>>]
    /\ rd' = [s \in Streams |-> 0]
    /\ rst' = [s \in Streams |-> "reading"]
    /\ emitted' = <<>>
    /\ lresult' = NoStatus
    /\ lpc' = "spawned"
    /\ UNCHANGED <<forward, ints>>
    /\ UNCHANGED <<buildVars, cacheVars, headerVars, storeVars, planVars, lineVars, raceVars>>

\* container::forward_sigint(pid): from now on a SIGINT of the build process
\* is sent on to pid.
ForwardSigint(pid) == pid

\* ::container::forward_sigint(Pid::from_raw(child.id() as i32))?
LoggedForward ==
    /\ lpc = "spawned"
    /\ forward' = ForwardSigint(lchild)
    /\ lpc' = "waiting"
    /\ UNCHANGED <<largs, lchild, lalive, lstatus, ints, written, rd, rst, emitted, lresult>>
    /\ UNCHANGED <<buildVars, cacheVars, headerVars, storeVars, planVars, lineVars, raceVars>>

\* child.wait()? returns once the child has exited.
LoggedWait ==
    /\ lpc = "waiting"
    /\ ~lalive
    /\ lpc' = "joining"
    /\ UNCHANGED <<largs, lchild, lalive, lstatus, forward, ints, written, rd, rst, emitted, lresult>>
    /\ UNCHANGED <<buildVars, cacheVars, headerVars, storeVars, planVars, lineVars, raceVars>>

JoinedStdoutOnly(r) == r["stdout"] = "done"

\* stdout_log.join(); stderr_log.join(): both threads have ended.
Joined(r) == r["stdout"] = "done" /\ r["stderr"] = "done"

\* Both joins return and logged returns Ok(result).
LoggedJoin ==
    /\ lpc = "joining"
    /\ Joined(rst)
    /\ lresult' = lstatus
    /\ lpc' = "idle"
    /\ UNCHANGED <<largs, lchild, lalive, lstatus, forward, ints, written, rd, rst, emitted>>
    /\ UNCHANGED <<buildVars, cacheVars, headerVars, storeVars, planVars, lineVars, raceVars>>

\* The child writes one more line to one of its pipes, while the pipe's
\* read end is open.
ChildWrites ==
    /\ lalive
    /\ \E s \in Streams, ok \in BOOLEAN :
        /\ rst[s] = "reading"
        /\ Len(written["stdout"]) + Len(written["stderr"]) < MaxWrites
        /\ written' = [written EXCEPT ![s] = Append(@, LineOf(s, Len(@) + 1, ok))]
    /\ UNCHANGED <<lpc, largs, lchild, lalive, lstatus, forward, ints, rd, rst, emitted, lresult>>
    /\ UNCHANGED <<buildVars, cacheVars, headerVars, storeVars, planVars, lineVars, raceVars>>

\* The child exits, which closes the write ends of its pipes.
ChildEnds ==
    /\ lalive
    /\ lalive' = FALSE
    /\ \E st \in LoggedStatuses : lstatus' = st
    /\ UNCHANGED <<lpc, largs, lchild, forward, ints, written, rd, rst, emitted, lresult>>
    /\ UNCHANGED <<buildVars, cacheVars, headerVars, storeVars, planVars, lineVars, raceVars>>

\* One turn of a log thread's loop, while let Some(Ok(line)) = lines.next():
\* a line is printed behind the tag; a line that is not UTF-8 is a read
\* error and the end of the pipe is None, and both end the thread.
ReaderStep(s) ==
    /\ rst[s] = "reading"
    /\ IF rd[s] < Len(written[s])
       THEN LET l == written[s][rd[s] + 1]
            IN  IF l.utf8
                THEN /\ emitted' = Append(emitted, [tag |-> Tag(largs.step, largs.is_pgo), line |-> l])
                     /\ rd' = [rd EXCEPT ![s] = @ + 1]
                     /\ rst' = rst
                ELSE /\ rst' = [rst EXCEPT ![s] = "done"]
                     /\ UNCHANGED <<emitted, rd>>
       ELSE /\ ~lalive
            /\ rst' = [rst EXCEPT ![s] = "done"]
            /\ UNCHANGED <<emitted, rd>>
    /\ UNCHANGED <<lpc, largs, lchild, lalive, lstatus, forward, ints, written, lresult>>
    /\ UNCHANGED <<buildVars, cacheVars, headerVars, storeVars, planVars, lineVars, raceVars>>

StdoutReader == ReaderStep("stdout")

StderrReader == ReaderStep("stderr")

\* The build process receives a SIGINT: it goes where forwarding was last
\* installed, or nowhere before the first call of forward_sigint.
Sigint ==
    /\ Len(ints) < MaxSigints
    /\ ints' = Append(ints, [to |-> forward, running |-> IF lalive THEN lchild ELSE 0])
    /\ UNCHANGED <<lpc, largs, lchild, lalive, lstatus, forward, written, rd, rst, emitted, lresult>>
    /\ UNCHANGED <<buildVars, cacheVars, headerVars, storeVars, planVars, lineVars, raceVars>>

LoggedNext ==
    \/ LoggedSpawn
    \/ LoggedForward
    \/ LoggedWait
    \/ LoggedJoin
    \/ ChildWrites
    \/ ChildEnds
    \/ StdoutReader
    \/ StderrReader
    \/ Sigint

\* ------------------------------------------ cache.rs: concurrent unpacks

\* The two calls of unpack that run at the same time on one installation.
RaceProcs == {1, 2}

\* payload::Index entries over a content of n bytes, as IndexEntries.
RaceEntries(n) ==
    {x \in [start : 0..n, end : 0..n, digest : 0..DigestOf(ContentOf(n))] :
        /\ x.start <= x.end
        /\ x.digest \in {0, DigestOf(Range(ContentOf(n), x.start, x.end))}}

\* The packages of SpecRace: a Content payload of up to MaxRaceBytes bytes
\* and one Index entry.
RaceStones ==
    UNION {[content : {ContentOf(n)},
            indices : {<<x>> : x \in RaceEntries(n)}] :
           n \in 1..MaxRaceBytes}

\* cache_path("content").join(self.id)
ContentPathOf(id) == <<"content", id>>

NoRaceResult == [kind |-> "none", extracted |-> FALSE, complete |-> FALSE]

\* The asset of each index entry of the package is on disk f with the bytes
\* of the entry's range.
AssetsComplete(f, pkg) ==
    \A k \in 1..Len(pkg.indices) :
        LET path == AssetPath(Format02x(pkg.indices[k].digest))
        IN  /\ path \in DOMAIN f
            /\ f[path] = Range(pkg.content, pkg.indices[k].start, pkg.indices[k].end)

\* Ok(UnpackedAsset { payloads }), with what the disk holds as unpack returns.
RaceOk(extracted, f, pkg) ==
    [kind |-> "Ok", extracted |-> extracted, complete |-> AssetsComplete(f, pkg)]

\* Err(Error::Io), from remove_file
RaceErr(f, pkg) == [kind |-> "Err", extracted |-> TRUE, complete |-> AssetsComplete(f, pkg)]

\* Two Downloads (each fresh or from the cache) whose stone files have
\* parsed, on an installation with no asset yet.  The second package is the
\* first one or another one.
RaceInit ==
    /\ fs = <<>>
    /\ \E a \in RaceStones, b \in RaceStones, c1 \in BOOLEAN, c2 \in BOOLEAN, same \in BOOLEAN :
        /\ same => a = b
        /\ un = [p \in RaceProcs |->
                   [pc |-> "idle",
                    id |-> IF p = 1 \/ same THEN "id" ELSE "id2",
                    pkg |-> IF p = 1 THEN a ELSE b,
                    was_cached |-> IF p = 1 THEN c1 ELSE c2,
                    k |-> 0, off |-> 0, result |-> NoRaceResult]]

RaceIdle == un = <<>>

\* unpack of call p up to the content file: the cached shortcut, or the
\* content file opened (created when missing, never truncated).
RaceCall(p) ==
    /\ un[p].pc = "idle"
    /\ IF SkipUnpacking(un[p], un[p].pkg.indices)
       THEN /\ un' = [un EXCEPT ![p].pc = "done",
                                ![p].result = RaceOk(FALSE, fs, un[p].pkg)]
            /\ fs' = fs
       ELSE /\ fs' = IF TryExists(ContentPathOf(un[p].id))
                     THEN fs
                     ELSE Written(fs, ContentPathOf(un[p].id), <<>>)
            /\ un' = [un EXCEPT ![p].pc = "extract"]
    /\ UNCHANGED <<stone, download, fpc, freq, netUsed, progress, fetchResult,
                   upc, uself, uk, unpackResult>>
    /\ UNCHANGED <<buildVars, headerVars, storeVars, planVars, lineVars, loggedVars>>

\* reader.unpack_content through the open content file, which another call
\* on the same package may have removed from its directory since.
RaceContent(p) ==
    /\ un[p].pc = "extract"
    /\ fs' = IF TryExists(ContentPathOf(un[p].id))
             THEN Written(fs, ContentPathOf(un[p].id), un[p].pkg.content)
             ELSE fs
    /\ un' = [un EXCEPT ![p].pc = "split", ![p].k = 1]
    /\ UNCHANGED <<stone, download, fpc, freq, netUsed, progress, fetchResult,
                   upc, uself, uk, unpackResult>>
    /\ UNCHANGED <<buildVars, headerVars, storeVars, planVars, lineVars, loggedVars>>

RaceIndex(p) == un[p].pkg.indices[un[p].k]

RaceAsset(p) == AssetPath(Format02x(RaceIndex(p).digest))

\* File::create(path): the asset file is created or truncated, and the
\* call's handle on it stands at offset 0.
RaceCreate(p) ==
    /\ un[p].pc = "split"
    /\ un[p].k <= Len(un[p].pkg.indices)
    /\ fs' = Written(fs, RaceAsset(p), <<>>)
    /\ un' = [un EXCEPT ![p].pc = "copy", ![p].off = 0]
    /\ UNCHANGED <<stone, download, fpc, freq, netUsed, progress, fetchResult,
                   upc, uself, uk, unpackResult>>
    /\ UNCHANGED <<buildVars, headerVars, storeVars, planVars, lineVars, loggedVars>>

WriteAtEnd(data, off, byte) == Append(data, byte)

\* A write of one byte through a handle that stands at offset off: the
\* file grows to hold it, with zeros where nothing was written.
WriteAt(data, off, byte) ==
    [i \in 1..(IF Len(data) > off + 1 THEN Len(data) ELSE off + 1) |->
        IF i = off + 1 THEN byte
        ELSE IF i <= Len(data) THEN data[i]
        ELSE 0]

\* copy(&mut split_file, &mut output): the next byte of the range goes
\* through the call's handle into the asset file; at the end of the range
\* the loop goes on to the next index entry.
RaceCopy(p) ==
    /\ un[p].pc = "copy"
    /\ LET bytes == Range(un[p].pkg.content, RaceIndex(p).start, RaceIndex(p).end)
       IN  IF un[p].off < Len(bytes)
           THEN /\ fs' = Written(fs, RaceAsset(p),
                                 WriteAt(fs[RaceAsset(p)], un[p].off, bytes[un[p].off + 1]))
                /\ un' = [un EXCEPT ![p].off = @ + 1]
           ELSE /\ fs' = fs
                /\ un' = [un EXCEPT ![p].pc = "split", ![p].k = @ + 1]
    /\ UNCHANGED <<stone, download, fpc, freq, netUsed, progress, fetchResult,
                   upc, uself, uk, unpackResult>>
    /\ UNCHANGED <<buildVars, headerVars, storeVars, planVars, lineVars, loggedVars>>

\* remove_file(&content_path)?; Ok(UnpackedAsset { payloads }): the removal
\* fails when the other call has removed the file already.
RaceFinish(p) ==
    /\ un[p].pc = "split"
    /\ un[p].k > Len(un[p].pkg.indices)
    /\ IF TryExists(ContentPathOf(un[p].id))
       THEN /\ fs' = Removed(fs, ContentPathOf(un[p].id))
            /\ un' = [un EXCEPT ![p].pc = "done",
                                ![p].result = RaceOk(TRUE, fs', un[p].pkg)]
       ELSE /\ fs' = fs
            /\ un' = [un EXCEPT ![p].pc = "done",
                                ![p].result = RaceErr(fs, un[p].pkg)]
    /\ UNCHANGED <<stone, download, fpc, freq, netUsed, progress, fetchResult,
                   upc, uself, uk, unpackResult>>
    /\ UNCHANGED <<buildVars, headerVars, storeVars, planVars, lineVars, loggedVars>>

RaceCallAny == \E p \in RaceProcs : RaceCall(p)

RaceContentAny == \E p \in RaceProcs : RaceContent(p)

RaceCreateAny == \E p \in RaceProcs : RaceCreate(p)

RaceCopyAny == \E p \in RaceProcs : RaceCopy(p)

RaceFinishAny == \E p \in RaceProcs : RaceFinish(p)

RaceNext ==
    \/ RaceCallAny
    \/ RaceContentAny
    \/ RaceCreateAny
    \/ RaceCopyAny
    \/ RaceFinishAny

\* ---------------------------------------------------------- specifications

\* Builder::build over every plan, the cache untouched.
InitBuild == BuildInit /\ CacheIdle /\ HeaderIdle /\ StoreIdle /\ PlanIdle /\ LineIdle /\ LoggedIdle /\ RaceIdle

SpecBuild == InitBuild /\ [][BuildNext]_vars

\* Builder::build over one target whose scripts touch the work directory.
InitRun == RunInit /\ CacheIdle /\ HeaderIdle /\ StoreIdle /\ PlanIdle /\ LineIdle /\ LoggedIdle /\ RaceIdle

SpecRun == InitRun /\ [][BuildNext]_vars

\* logged, called for one child after another, with the children writing
\* and SIGINTs arriving at any moment.
InitLogged ==
    LoggedInit /\ BuildIdle /\ CacheIdle /\ HeaderIdle /\ StoreIdle /\ PlanIdle /\ LineIdle
        /\ RaceIdle

SpecLogged == InitLogged /\ [][LoggedNext]_vars

\* Two calls of Download::unpack at the same time on one installation.
InitRace ==
    RaceInit /\ BuildIdle /\ HeaderIdle /\ StoreIdle /\ PlanIdle /\ LineIdle /\ LoggedIdle
        /\ stone = [content |-> None, indices |-> <<>>]
        /\ download = None /\ fpc = "idle" /\ freq = NoMeta /\ netUsed = FALSE
        /\ progress = <<>> /\ fetchResult = NoFetch
        /\ upc = "idle" /\ uself = None /\ uk = 0 /\ unpackResult = NoUnpack

SpecRace == InitRace /\ [][RaceNext]_vars

\* fetch and unpack over every package, no build running.
InitCache == CacheInit /\ BuildIdle /\ HeaderIdle /\ StoreIdle /\ PlanIdle /\ LineIdle /\ LoggedIdle /\ RaceIdle

SpecCache == InitCache /\ [][CacheNext]_vars

\* One call of unpack over every package, fresh or cached, assets there or not.
InitUnpack == UnpackInit /\ BuildIdle /\ HeaderIdle /\ StoreIdle /\ PlanIdle /\ LineIdle /\ LoggedIdle /\ RaceIdle

\* Header::decode over every byte source, Header::encode over every Header.
InitHeader == HeaderInit /\ BuildIdle /\ CacheIdle /\ StoreIdle /\ PlanIdle /\ LineIdle /\ LoggedIdle /\ RaceIdle

SpecHeader == InitHeader /\ [][HeaderNext]_vars

\* download_path and asset_path called in any order on an empty store.
InitStore == StoreInit /\ BuildIdle /\ CacheIdle /\ HeaderIdle /\ PlanIdle /\ LineIdle /\ LoggedIdle /\ RaceIdle

SpecStore == InitStore /\ [][StoreNext]_vars

\* Builder::new over every loaded recipe.
InitPlan == PlanInit /\ BuildIdle /\ CacheIdle /\ HeaderIdle /\ StoreIdle /\ LineIdle /\ LoggedIdle /\ RaceIdle

SpecPlan == InitPlan /\ [][PlanNext]_vars

\* breakpoint_line over every source, profile, step and breakpoint.
InitLine == LineInit /\ BuildIdle /\ CacheIdle /\ HeaderIdle /\ StoreIdle /\ PlanIdle /\ LoggedIdle /\ RaceIdle

SpecLine == InitLine /\ [][LineNext]_vars

SpecUnpack == InitUnpack /\ [][UnpackNext]_vars

\* ------------------------------------------------- properties of the build

Last(s) == s[Len(s)]

\* The commands of a job in plan order: its declared steps in the canonical
\* order, each step's commands in declared order.
JobCommandSeq(t, j) ==
    Flatten([k \in 1..Len(StepOrder) |->
        IF StepOrder[k] \in DOMAIN targets[t][j].steps
        THEN [c \in 1..Len(targets[t][j].steps[StepOrder[k]]) |->
                [t |-> t, j |-> j, step |-> StepOrder[k], c |-> c,
                 cmd |-> targets[t][j].steps[StepOrder[k]][c]]]
        ELSE <<>>])

\* The commands of the whole plan in plan order.
PlanSeq ==
    Flatten([t \in 1..Len(targets) |->
        Flatten([j \in 1..Len(targets[t]) |-> JobCommandSeq(t, j)])])

\* The jobs of the plan in plan order.
JobSeq ==
    Flatten([t \in 1..Len(targets) |-> [j \in 1..Len(targets[t]) |-> <<t, j>>]])

IsErr(r) == r.kind \in {"Code", "Signal", "UnknownSignal"}

LastIs(kind, exit) ==
    /\ log # <<>>
    /\ Last(log).cmd.kind = kind
    /\ Last(log).cmd.exit = exit

ContentFailed == childStatus # NoStatus /\ ~Success(childStatus)

\* C1: the commands started so far are exactly a prefix of the plan's commands
\* in plan order (targets, then jobs, then the declared steps in the order
\* Prepare, Setup, Build, Install, Check, Workload, then commands), and the only
\* child that can be alive is that of the command started last: no command
\* starts while an earlier child or breakpoint shell is still running.
C1_SequentialPlanOrder ==
    /\ Len(log) <= Len(PlanSeq)
    /\ log = SubSeq(PlanSeq, 1, Len(log))
    /\ Cardinality(live) <= 1
    /\ live # {} => (log # <<>> /\ live = {Last(log)})
    /\ live # {} <=> pc \in {"shell", "child"}

\* C1 witness: a plan with two targets of two jobs each and two declared
\* steps has run through, every command in order.
C1_Witness ==
    /\ pc = "done"
    /\ Len(targets) = 2
    /\ Len(targets[1]) = 2
    /\ Cardinality(DOMAIN targets[1][1].steps) = 2
    /\ Len(log) = 8
    /\ log = PlanSeq

\* C2: once a Content child has exited unsuccessfully, build has returned an
\* error and the failed command is the last thing that ran: no child is
\* alive, no later command or breakpoint was started and the last work
\* directory recreated is that of the failed command's job.
C2_ContentFailureAborts ==
    ContentFailed =>
        /\ pc = "done"
        /\ IsErr(result)
        /\ live = {}
        /\ LastIs("Content", FALSE)
        /\ Last(recreated) = <<Last(log).t, Last(log).j>>

\* C2 witness: the first command of the plan failed while a later command, a
\* later job and a later target were still to come.
C2_Witness ==
    /\ ContentFailed
    /\ pc = "done"
    /\ Len(log) = 1
    /\ Len(PlanSeq) >= 4
    /\ Len(targets) = 2
    /\ Len(targets[1]) = 2
    /\ Len(recreated) = 1

\* C3: once the shell of a Break with exit=true has exited, build has
\* returned success and that breakpoint is the last thing that ran, whatever
\* remains in the plan.
C3_ExitBreakReturnsOk ==
    (LastIs("Break", TRUE) /\ live = {}) =>
        /\ pc = "done"
        /\ result = OkResult
        /\ Last(recreated) = <<Last(log).t, Last(log).j>>

\* C3 witness: build returned from an exit breakpoint that was the first
\* command of a plan with more commands, jobs and targets to come.
C3_Witness ==
    /\ LastIs("Break", TRUE)
    /\ pc = "done"
    /\ result = OkResult
    /\ Len(log) = 1
    /\ Len(PlanSeq) >= 4
    /\ Len(targets) = 2
    /\ Len(targets[1]) = 2

\* C4: once the shell of a Break with exit=false has exited, whatever its
\* exit status, build has not failed and has not stopped there: it is done
\* only when the plan is exhausted, and then with success.
C4_ContinueBreakResumes ==
    (LastIs("Break", FALSE) /\ live = {}) =>
        /\ shellStatus \in ShellStatuses
        /\ ~IsErr(result)
        /\ pc = "done" => (result = OkResult /\ log = PlanSeq)
        /\ pc # "done" => result = NoResult

\* C4 witness: a breakpoint shell was killed by a signal and the command
\* after it, the first of the next job, is running.
C4_Witness ==
    /\ pc = "child"
    /\ result = NoResult
    /\ Len(log) >= 2
    /\ log[Len(log) - 1].cmd = [kind |-> "Break", exit |-> FALSE, effect |-> "keep"]
    /\ log = SubSeq(PlanSeq, 1, Len(log))
    /\ shellStatus.kind = "signaled"

\* The error the exit status of a failed child stands for: the exit code when
\* there is one, else the terminating signal, else the stop signal, when that
\* number names a signal; UnknownSignal otherwise.
C5_Expected(st) ==
    CASE st.kind = "exited" -> [kind |-> "Code", n |-> st.n]
      [] st.kind \in {"signaled", "stopped"} /\ st.n \in 1..31 ->
            [kind |-> "Signal", n |-> st.n]
      [] OTHER -> [kind |-> "UnknownSignal", n |-> 0]

\* C5: the error build returns for a failed Content child is the one its exit
\* status stands for: Code(n) for an exit code n # 0, Signal(sig) for the
\* terminating or else the stop signal, UnknownSignal when there is neither or
\* the number names no signal.
C5_ErrorKindByStatus ==
    /\ ContentFailed => result = C5_Expected(childStatus)
    /\ IsErr(result) => ContentFailed

\* C5 witness: a child killed by signal 32, which names no signal.
C5_Witness ==
    /\ childStatus = [kind |-> "signaled", n |-> 32]
    /\ result.kind = "UnknownSignal"

\* Every job of every target has run all of its commands to completion.
AllJobsCompleted ==
    /\ log = PlanSeq
    /\ recreated = JobSeq
    /\ live = {}
    /\ ~ContentFailed

\* C6 as stated: a success means every job of every target ran all of its
\* commands, and build is done with a failure otherwise.
C6_NoPartialSuccess ==
    /\ result = OkResult => AllJobsCompleted
    /\ (pc = "done" /\ result # OkResult) => IsErr(result)

\* C6 amended: a success means that every job of every target ran all of its
\* commands or that build returned from a Break with exit=true; build is done
\* with a failure otherwise.
C6_NoPartialSuccessButExitBreak ==
    /\ result = OkResult => (AllJobsCompleted \/ (LastIs("Break", TRUE) /\ live = {}))
    /\ (pc = "done" /\ result # OkResult) => IsErr(result)
    /\ pc = "done" => result # NoResult

\* C6 witness: a plan of two targets with two jobs each has succeeded with
\* every job run through and no exit breakpoint in it.
C6_Witness ==
    /\ result = OkResult
    /\ AllJobsCompleted
    /\ Len(JobSeq) = 4
    /\ Len(log) >= 4
    /\ \A i \in 1..Len(log) : ~log[i].cmd.exit

\* ------------------------------------------------- properties of the cache

\* A step that is a call of fetch: from idle, and not the call of unpack
\* (which alone takes the pending Download away).
IsFetchCall ==
    /\ fpc = "idle"
    /\ upc = "idle"
    /\ ~(download # None /\ download' = None)

\* A step that is a call of unpack.
IsUnpackCall ==
    /\ fpc = "idle"
    /\ upc = "idle"
    /\ download # None
    /\ download' = None

\* The call returns the cached Download of its hash and touches nothing:
\* no request, no Progress reported, no file created or changed.
CachedReturn ==
    /\ fetchResult' = FetchOk(TRUE)
    /\ download' = <<[path |-> DownloadPath(freq'.hash).path, was_cached |-> TRUE]>>
    /\ fpc' = "idle"
    /\ ~netUsed'
    /\ progress' = <<>>
    /\ fs' = fs

\* A file exists at download_path(hash) of the call's meta.
CallHitsCache ==
    /\ DownloadPath(freq'.hash).kind = "Ok"
    /\ DownloadPath(freq'.hash).path \in DOMAIN fs

\* A fetch that issued a request did not return was_cached=true.
DownloadedNotCached == (fetchResult'.kind = "Ok" /\ netUsed') => ~fetchResult'.was_cached

\* C7 as stated: every call of fetch that finds a file at download_path(hash)
\* returns a Download with was_cached=true, with no request, no Progress and
\* no write; a fetch that downloaded returns was_cached=false.
C7_CachedFetchAlways ==
    [][/\ (IsFetchCall /\ CallHitsCache) => CachedReturn
       /\ DownloadedNotCached]_vars

\* C7 amended: every call of fetch whose meta has a URI that parses and that
\* finds a file at download_path(hash) returns a Download with was_cached=true,
\* with no request, no Progress and no write; a fetch that downloaded returns
\* was_cached=false.
C7_CachedFetchWithUri ==
    [][/\ (IsFetchCall /\ freq'.uri = "ok" /\ CallHitsCache) => CachedReturn
       /\ DownloadedNotCached]_vars

\* C7 witness: a fetch has returned the complete file of an earlier download
\* as a cache hit, with no request and no Progress.
C7_Witness ==
    /\ fetchResult = FetchOk(TRUE)
    /\ freq.uri = "ok"
    /\ download = <<[path |-> DownloadPath(HashLong).path, was_cached |-> TRUE]>>
    /\ fs[DownloadPath(HashLong).path] = Body
    /\ ~netUsed
    /\ progress = <<>>

\* C8: whenever no fetch is running, every file under downloads/ holds the
\* complete response body, and so does the file of a Download returned with
\* was_cached=true.
C8_DownloadsComplete ==
    fpc = "idle" =>
        /\ \A p \in DOMAIN fs : p[1] = "downloads" => fs[p] = Body
        /\ (download # None /\ download[1].was_cached) => fs[download[1].path] = Body

\* C9: an unpack that extracted the content and returned success had, for
\* every Index entry, the digest of the bytes [start, end) of the content
\* equal to the entry's digest.
C9_DigestMismatchFails ==
    (unpackResult.kind = "Ok" /\ unpackResult.extracted) =>
        \A k \in 1..Len(stone.indices) :
            stone.indices[k].digest =
                DigestOf(Range(stone.content[1], stone.indices[k].start, stone.indices[k].end))

\* Every indexed asset of the package exists under its asset path.
AllAssetsOnDisk ==
    \A k \in 1..Len(stone.indices) :
        AssetPath(Format02x(stone.indices[k].digest)) \in DOMAIN fs

\* C10: a call of unpack on a Download with was_cached=true whose stone file
\* parses and whose indexed assets all exist returns success at once and
\* leaves every file as it was: no content file, no asset file created or
\* rewritten.
C10_CachedUnpackSkips ==
    [][(/\ IsUnpackCall
        /\ download[1].was_cached
        /\ Parses(fs[download[1].path])
        /\ AllAssetsOnDisk)
       => (/\ unpackResult' = UnpackOk(FALSE)
           /\ upc' = "idle"
           /\ fs' = fs)]_vars

\* C10 witness: unpack has taken the shortcut for a package with a Content
\* payload and two Index entries, all assets on disk and no content file.
C10_Witness ==
    /\ unpackResult = UnpackOk(FALSE)
    /\ upc = "idle"
    /\ stone.content # None
    /\ Len(stone.indices) = 2
    /\ AllAssetsOnDisk
    /\ ContentPath \notin DOMAIN fs

\* The call leaves the temporary content file as it was: absent, or there
\* with the same bytes.
ContentUntouched ==
    /\ (ContentPath \in DOMAIN fs') <=> (ContentPath \in DOMAIN fs)
    /\ ContentPath \in DOMAIN fs => fs'[ContentPath] = fs[ContentPath]

\* C11 as stated: a call of unpack for a package all of whose indexed assets
\* exist returns at once without creating or writing the temporary content
\* file, whether the Download was served from the cache or not.
C11_AllAssetsSkipAlways ==
    [][(IsUnpackCall /\ AllAssetsOnDisk)
       => (upc' = "idle" /\ ContentUntouched)]_vars

\* C11 amended: a call of unpack on a Download served from the cache, for a
\* package all of whose indexed assets exist, returns at once without creating
\* or writing the temporary content file; on a Download that was not served
\* from the cache, unpack opens the content file and extracts the Content
\* payload even when every asset exists.
C11_AllAssetsSkipWhenCached ==
    [][/\ (IsUnpackCall /\ download[1].was_cached /\ AllAssetsOnDisk)
            => (upc' = "idle" /\ ContentUntouched)
       /\ (IsUnpackCall /\ ~download[1].was_cached /\ Parses(fs[download[1].path])
                /\ stone.content # None)
            => (upc' = "extract" /\ ContentPath \in DOMAIN fs')]_vars

\* C11 witness: unpack of a cached Download has returned for a package with
\* one Index entry whose asset an earlier unpack left, and there is no
\* content file.
C11_Witness ==
    /\ unpackResult = UnpackOk(FALSE)
    /\ upc = "idle"
    /\ fetchResult = FetchOk(TRUE)
    /\ stone.content # None
    /\ Len(stone.indices) = 1
    /\ stone.indices[1].end > stone.indices[1].start
    /\ AllAssetsOnDisk
    /\ ContentPath \notin DOMAIN fs

\* C12: a call of unpack on a stone file that parses and has no Content
\* payload returns MissingContent and leaves every file as it was: no
\* content file and no asset file created or modified.
C12_NoContentFails ==
    [][(IsUnpackCall /\ Parses(fs[download[1].path]) /\ stone.content = None)
       => (/\ unpackResult' = UnpackErr("MissingContent")
           /\ upc' = "idle"
           /\ fs' = fs)]_vars

\* C13: after an unpack that extracted the content and returned success,
\* for every Index entry the file at asset_path(hex(digest)) holds exactly
\* the bytes [start, end) of the content payload, and the temporary content
\* file is gone.
C13_AssetsHoldRanges ==
    (unpackResult.kind = "Ok" /\ unpackResult.extracted) =>
        /\ \A k \in 1..Len(stone.indices) :
            /\ AssetPath(Format02x(stone.indices[k].digest)) \in DOMAIN fs
            /\ fs[AssetPath(Format02x(stone.indices[k].digest))] =
                    Range(stone.content[1], stone.indices[k].start, stone.indices[k].end)
        /\ ContentPath \notin DOMAIN fs

\* ------------------------------------------------ properties of the header

\* The magic as it lies on disk: 00 6d 6f 73.
MagicOnDisk == <<0, 109, 111, 115>>

\* Four bytes read as a big-endian number.
BigEndian(b) == b[1] * 16777216 + b[2] * 65536 + b[3] * 256 + b[4]

\* decode has returned for a source of at least 32 bytes, none of them
\* produced by encode.
DecodedWhole == decoded # None /\ header = None /\ Len(reader.bytes) >= 32

\* C14: decode of at least 32 bytes fails with InvalidMagic whenever bytes
\* 0..4 are not 00 6d 6f 73, whatever bytes 28..32 are, and otherwise with
\* UnknownVersion(v) whenever bytes 28..32 are the big-endian number v # 1.
C14_MagicThenVersion ==
    DecodedWhole =>
        /\ SubSeq(reader.bytes, 1, 4) # MagicOnDisk
            => decoded[1] = DecodeErr("InvalidMagic", 0)
        /\ (SubSeq(reader.bytes, 1, 4) = MagicOnDisk
                /\ BigEndian(SubSeq(reader.bytes, 29, 32)) # 1)
            => decoded[1] = DecodeErr("UnknownVersion", BigEndian(SubSeq(reader.bytes, 29, 32)))

\* C14 witness: 32 bytes with the magic, zeros and version 00 00 00 09 have
\* decoded to UnknownVersion(9).
C14_Witness ==
    /\ decoded = <<DecodeErr("UnknownVersion", 9)>>
    /\ reader.bytes = MagicOnDisk \o [i \in 1..24 |-> 0] \o <<0, 0, 0, 9>>

\* C15: decode of fewer than 32 bytes fails with NotEnoughBytes when the
\* source ends there, whatever the bytes are, and with Io (never with
\* NotEnoughBytes) when the source fails in another way.
C15_ShortRead ==
    (decoded # None /\ Len(reader.bytes) < 32) =>
        /\ reader.then = "UnexpectedEof" => decoded[1] = DecodeErr("NotEnoughBytes", 0)
        /\ reader.then # "UnexpectedEof" => decoded[1] = DecodeErr("Io", 0)

\* C15 witness: ten bytes that do not start with the magic have decoded to
\* NotEnoughBytes.
C15_Witness ==
    /\ decoded = <<DecodeErr("NotEnoughBytes", 0)>>
    /\ Len(reader.bytes) = 10
    /\ SubSeq(reader.bytes, 1, 4) # MagicOnDisk

\* C16: the envelope encode makes of a Header is 32 bytes, starting with
\* 00 6d 6f 73 and ending with the version 00 00 00 01, and decode of these
\* bytes returns the Header that was encoded.
C16_RoundTrip ==
    /\ agnostic # None =>
        /\ Len(AgnosticBytes(agnostic[1])) = 32
        /\ reader.bytes = AgnosticBytes(agnostic[1])
        /\ SubSeq(reader.bytes, 1, 4) = MagicOnDisk
        /\ SubSeq(reader.bytes, 29, 32) = <<0, 0, 0, 1>>
    /\ (agnostic # None /\ decoded # None) =>
        /\ decoded[1].kind = "Ok"
        /\ decoded[1].header = header[1]
        /\ HeaderVersion(decoded[1].header) = HeaderVersion(header[1])

\* C16 witness: a V1 header with one payload was encoded and decoded back.
C16_Witness ==
    /\ header = <<[kind |-> "V1", v1 |-> [num_payloads |-> 1]]>>
    /\ agnostic # None
    /\ decoded = <<DecodeOk(header[1])>>

\* ------------------------------------------------- properties of the store

\* The same function was called with the same hash twice in a row.
CalledAgain == prev # NoCall /\ prev.fn = call.fn /\ prev.hash = call.hash

\* C17: asset_path(H) is assets/v2/H[0..2]/H[2..4]/H[4..6]/H for a hash of 10
\* characters or more and assets/v2/H for a shorter one; when it has returned
\* the directory of the path exists, and a second call returns the same path.
C17_AssetPathLayout ==
    call.fn = "asset_path" =>
        /\ call.kind = "Ok"
        /\ Len(call.hash) >= 10 =>
            call.path = <<"assets", "v2", <<call.hash[1], call.hash[2]>>,
                          <<call.hash[3], call.hash[4]>>,
                          <<call.hash[5], call.hash[6]>>, call.hash>>
        /\ Len(call.hash) < 10 => call.path = <<"assets", "v2", call.hash>>
        /\ \A n \in 1..(Len(call.path) - 1) : SubSeq(call.path, 1, n) \in dirs
        /\ CalledAgain => call.path = prev.path

\* C17 witness: asset_path("abcdef0123456789") has returned
\* assets/v2/ab/cd/ef/abcdef0123456789 twice in a row.
C17_Witness ==
    /\ call.fn = "asset_path"
    /\ call.hash = HashSharded
    /\ CalledAgain
    /\ call.path = <<"assets", "v2", <<"a", "b">>, <<"c", "d">>, <<"e", "f">>, HashSharded>>
    /\ <<"assets", "v2", <<"a", "b">>, <<"c", "d">>, <<"e", "f">>>> \in dirs

\* The directories under downloads/.
DownloadDirs == {d \in dirs : d[1] = "downloads"}

\* C18: download_path(H) of a hash under 5 characters fails with
\* MalformedHash(H) and creates no directory; of a longer hash it returns
\* downloads/v1/<first 5>/<last 5>/H and the directory of that path exists.
C18_DownloadPathLayout ==
    [][call'.fn = "download_path" =>
        /\ Len(call'.hash) < 5 =>
            /\ call'.kind = "MalformedHash"
            /\ call'.path = call'.hash
            /\ dirs' = dirs
        /\ Len(call'.hash) >= 5 =>
            /\ call'.kind = "Ok"
            /\ call'.path =
                <<"downloads", "v1",
                  [i \in 1..5 |-> call'.hash[i]],
                  [i \in 1..5 |-> call'.hash[Len(call'.hash) - 5 + i]],
                  call'.hash>>
            /\ \A n \in 1..4 : SubSeq(call'.path, 1, n) \in dirs']_vars

\* C18 witness: download_path("abcdefgh1234") has returned
\* downloads/v1/abcde/h1234/abcdefgh1234 after a call for a hash of 4
\* characters had failed and left no directory under downloads/.
C18_Witness ==
    /\ prev.fn = "download_path" /\ prev.kind = "MalformedHash" /\ Len(prev.hash) = 4
    /\ call.fn = "download_path" /\ call.kind = "Ok"
    /\ call.path = <<"downloads", "v1", <<"a", "b", "c", "d", "e">>,
                     <<"h", "1", "2", "3", "4">>, HashLong>>
    /\ DownloadDirs =
        {<<"downloads">>, <<"downloads", "v1">>,
         <<"downloads", "v1", <<"a", "b", "c", "d", "e">>>>,
         <<"downloads", "v1", <<"a", "b", "c", "d", "e">>, <<"h", "1", "2", "3", "4">>>>}

\* -------------------------------------------------- properties of the plan

\* C19: Builder::new fails with NoBuildTargets for a recipe with no build
\* target; when it succeeds there is one target per build target, in order,
\* whose jobs are one job with no PGO stage when pgo::stages gives none, and
\* one job per stage, in the order of the stages, when it gives stages; and
\* it succeeds whenever there is a build target and every job is constructed.
C19_JobPlanning ==
    built # NoBuilder =>
        /\ recipe.build_targets = <<>> => built = BuilderErr("NoBuildTargets")
        /\ (recipe.build_targets # <<>>
                /\ \A t \in 1..Len(recipe.build_targets) : recipe.build_targets[t] # recipe.bad)
            => built.kind = "Ok"
        /\ built.kind = "Ok" =>
            /\ Len(built.targets) = Len(recipe.build_targets)
            /\ \A t \in 1..Len(built.targets) :
                LET bt == recipe.build_targets[t]
                    jobs == built.targets[t].jobs
                IN  /\ built.targets[t].build_target = bt
                    /\ \A k \in 1..Len(jobs) : jobs[k].target = bt
                    /\ recipe.stages[bt] = None =>
                        (Len(jobs) = 1 /\ jobs[1].pgo_stage = None)
                    /\ recipe.stages[bt] # None =>
                        /\ Len(jobs) = Len(recipe.stages[bt][1])
                        /\ \A k \in 1..Len(jobs) :
                            jobs[k].pgo_stage = <<recipe.stages[bt][1][k]>>

\* C19 witness: a recipe with two build targets, the first with the stages
\* Stage1, Stage2, Use and the second without PGO, has three jobs in that
\* order for the first and one job with no stage for the second.
C19_Witness ==
    /\ built.kind = "Ok"
    /\ Len(built.targets) = 2
    /\ Len(built.targets[1].jobs) = 3
    /\ [k \in 1..3 |-> built.targets[1].jobs[k].pgo_stage] =
            <<<<"Stage1">>, <<"Stage2">>, <<"Use">>>>
    /\ built.targets[2].jobs = <<[target |-> recipe.build_targets[2], pgo_stage |-> None]>>

\* ---------------------------------------- properties of breakpoint_line

\* What the lines written are: which are indented, which open a block, and
\* which words the key before the colon ends with.
IsIndented(l) == l \in {LineProfile, LineInBuildBlock, LineInRebuild, LineInText}

OpensBlock(l) == l \in {LineBuildBlock, LineSetupFolded, LineInBuildBlock}

KeyEnds(l) ==
    CASE l \in {LineBuildBlock, LineInBuildBlock, LineInRebuild} -> {"Build"}
      [] l = LineSetupFolded -> {"Setup"}
      [] l = LineProfile -> {"arm"}
      [] OTHER -> {}

\* Line i of the recipe is in the scope of the target's profile: a root line
\* when there is no profile key, else an indented line from the first
\* indented line on whose key ends with the profile key.
InScope(i) ==
    IF asked.recipe.profile = None
    THEN ~IsIndented(asked.recipe.written[i])
    ELSE /\ IsIndented(asked.recipe.written[i])
         /\ \E k \in 1..i : "arm" \in KeyEnds(asked.recipe.written[k])

\* Line i is in scope and its key ends with the name of the step.
StepLine(i) == InScope(i) /\ asked.step \in KeyEnds(asked.recipe.written[i])

\* C20: for a step other than Prepare with a line in scope whose key ends
\* with the step's name, breakpoint_line returns the 1-based number of the
\* first such line, plus 1 when the value opens a block with | or >, plus
\* breakpoint.line_num; for Prepare it returns no line.
C20_BreakpointLine ==
    line # Pending =>
        /\ asked.step = "Prepare" => line = Returned(None)
        /\ \A i \in 1..Len(asked.recipe.written) :
            (asked.step # "Prepare" /\ StepLine(i) /\ \A k \in 1..(i - 1) : ~StepLine(k))
                => line = Returned(<<i + (IF OpensBlock(asked.recipe.written[i]) THEN 1 ELSE 0)
                                       + asked.line_num>>)

\* C20 witness: with no profile, an indented 'build: |' on line 2 and a root
\* 'build: |' on line 3, a breakpoint at line_num 1 of Build resolves to
\* 3 + 1 + 1 = 5.
C20_Witness ==
    /\ asked.recipe.written = <<LineName, LineInBuildBlock, LineBuildBlock>>
    /\ asked.recipe.profile = None
    /\ asked.step = "Build"
    /\ asked.line_num = 1
    /\ line = Returned(<<5>>)

\* ------------------------------------------------ builder.rs: directories

\* No command of the current job has started yet.
JobUntouched == \A k \in 1..Len(log) : <<log[k].t, log[k].j>> # <<ti, ji>>

\* C21: from the moment a job is entered until its first command starts,
\* the job's work directory exists and is empty, whatever an earlier build or
\* job left on disk, and the -pgo directory of a job with a PGO stage exists.
C21_DirsReadyBeforeFirstCommand ==
    (pc \in {"step", "cmd"} /\ JobUntouched) =>
        /\ disk[WorkDir(ti, ji)] = "empty"
        /\ CurJob.pgo_stage # 0 => disk[PgoDir(ti, ji)] # "absent"

\* The first command of the second PGO job is running in a work directory
\* that was recreated, after the first job filled its own.
C21_Witness ==
    /\ pc = "child" /\ ji = 2 /\ CurJob.pgo_stage # 0
    /\ Cardinality({k \in 1..Len(log) : log[k].j = 2}) = 1
    /\ disk[WorkDir(1, 1)] = "used"
    /\ disk[WorkDir(1, 2)] = "empty"
    /\ disk[PgoDir(1, 2)] = "stale"

\* C22: every shell is given work_dir if work_dir exists when the shell is
\* spawned, and build_dir otherwise.
C22_ShellDirFollowsDisk ==
    cwd # NoDir =>
        cwd.dir = IF cwd.work_dir_exists THEN "work_dir" ELSE "build_dir"

\* C23: outside a breakpoint shell, from the first command on and when
\* build has returned, the terminal's foreground is the runner's group.
C23_RunnerOwnsForeground ==
    pc \notin {"init", "shell"} => fg = "runner"

\* A breakpoint shell has exited and the next command's child is running
\* with the runner back in the foreground.
C23_Witness ==
    /\ pc = "child"
    /\ shellStatus # NoStatus
    /\ fg = "runner"
    /\ Len(log) >= 2
    /\ log[Len(log) - 1].cmd.kind = "Break"

\* ------------------------------------------------- properties of logged

\* C24: every SIGINT the build process received while a child was running
\* was forwarded to that child.
C24_SigintReachesRunningChild ==
    \A k \in 1..Len(ints) :
        ints[k].running # 0 => ints[k].to = ints[k].running

\* logged has returned from a call.
LoggedReturned == lpc = "idle" /\ lchild > 0

\* The lines printed for stream s, in the order printed.
EmittedOf(s) == SelectSeq([k \in 1..Len(emitted) |-> emitted[k].line], LAMBDA l : l.stream = s)

\* The lines of w before its first line that is not valid UTF-8.
RECURSIVE ValidPrefix(_)
ValidPrefix(w) ==
    IF w = <<>> \/ ~Head(w).utf8 THEN <<>> ELSE <<Head(w)>> \o ValidPrefix(Tail(w))

IsPrefix(a, b) == Len(a) <= Len(b) /\ a = SubSeq(b, 1, Len(a))

\* C25 as stated: when logged returns, every line the child wrote has been
\* printed.
C25_EveryLineEmitted ==
    LoggedReturned =>
        \A s \in Streams : EmittedOf(s) = written[s]

\* C25: logged returns only after the child has exited and both reader
\* threads have ended; by then, per stream, the lines the child wrote before
\* the stream's first line that is not valid UTF-8 have been printed, each
\* behind the tag of the step; at every moment the lines printed of one
\* stream are, in the order written, the first lines of the stream.
C25_LinesUpToReadErrorEmitted ==
    /\ \A s \in Streams : IsPrefix(EmittedOf(s), ValidPrefix(written[s]))
    /\ \A k \in 1..Len(emitted) : emitted[k].tag = Tag(largs.step, largs.is_pgo)
    /\ LoggedReturned =>
        /\ ~lalive
        /\ \A s \in Streams : rst[s] = "done" /\ EmittedOf(s) = ValidPrefix(written[s])

\* logged has returned for a PGO job's child that wrote a line on stdout
\* and two on stderr: the first line of stderr was printed before the line
\* of stdout, and the second was lost to a read error.
C25_Witness ==
    /\ LoggedReturned
    /\ largs.is_pgo
    /\ Len(written["stdout"]) = 1 /\ Len(written["stderr"]) = 2
    /\ Len(emitted) = 2
    /\ emitted[1].line = LineOf("stderr", 1, TRUE)
    /\ emitted[2].line = LineOf("stdout", 1, TRUE)
    /\ ~written["stderr"][2].utf8

\* ------------------------------------- properties of concurrent unpacks

BothDone == \A p \in RaceProcs : un[p].pc = "done"

\* The digests the index entries of call p name.
DigestsOf(p) == {un[p].pkg.indices[k].digest : k \in 1..Len(un[p].pkg.indices)}

\* The byte strings that the index entries of digest d, of either package,
\* give the asset of d.
BytesFor(d) ==
    UNION {{Range(un[p].pkg.content, un[p].pkg.indices[k].start, un[p].pkg.indices[k].end) :
                k \in {j \in 1..Len(un[p].pkg.indices) : un[p].pkg.indices[j].digest = d}} :
           p \in RaceProcs}

\* C26: once both unpacks have returned, the asset of a digest that both
\* packages index, with the same bytes, holds exactly those bytes.
C26_SharedAssetHoldsItsBytes ==
    BothDone =>
        \A d \in DigestsOf(1) \cap DigestsOf(2) :
            Cardinality(BytesFor(d)) = 1 =>
                /\ AssetPath(Format02x(d)) \in DOMAIN fs
                /\ fs[AssetPath(Format02x(d))] \in BytesFor(d)

\* Two packages that index the same two bytes under one digest were both
\* extracted, neither by the shortcut, and have both returned.
C26_Witness ==
    /\ BothDone
    /\ un[1].id # un[2].id
    /\ \A p \in RaceProcs : un[p].result.kind = "Ok" /\ un[p].result.extracted
    /\ \E d \in DigestsOf(1) \cap DigestsOf(2) :
        /\ Cardinality(BytesFor(d)) = 1
        /\ \A b \in BytesFor(d) : Len(b) = 2 /\ fs[AssetPath(Format02x(d))] = b

\* C27: an unpack that returned success found, as it returned, every asset
\* its package indexes on disk with the bytes of its range.
C27_SuccessMeansComplete ==
    \A p \in RaceProcs : un[p].result.kind = "Ok" => un[p].result.complete

====
